---- MODULE Spec2Model ----
(***************************************************************************)
(* Model of the thoth reconciliation core: the report store                *)
(* (thoth/reports.py, thoth/ogame_api.py), the planet pass                 *)
(* (ogame_api.sync_planets) and the best-report selection; and of the      *)
(* bot's trade, ACS channel and membership commands.                       *)
(*                                                                         *)
(* Spec      the calls made on the store, one at a time                    *)
(* SpecBest  the two get_best_api_key functions applied to key lists       *)
(* SpecConc  two processes saving reports at the same time                 *)
(* SpecBestClock  reports.get_best_api_key called as the clock advances    *)
(* SpecDelta  ReportWithDelta built for the reports of a store             *)
(* SpecSync  planet passes over a table planets left by earlier runs       *)
(* SpecRace  one planet pass beside two saves                              *)
(* SpecPlayers  saves and a planet pass of two players, step by step       *)
(* SpecLink  saves over stored planets                                     *)
(* SpecParse  reports.add_key and delete_key on tokens and exports         *)
(* SpecTrade  the buttons and modals of one trade message                  *)
(* SpecChannels  the ACS channel commands as interleaved tasks             *)
(* SpecMembers  members.link and members.unlink                            *)
(*                                                                         *)
(* Time is counted in days.  None is written as a sentinel of the type of  *)
(* the value it replaces (NoTime, NoneStr, NoCoords, NoName, NoResources). *)
(***************************************************************************)
EXTENDS Integers, Sequences, FiniteSets, TLC

VARIABLES
    now,        \* the wall clock (datetime.utcnow()), in days
    players,    \* ogame_id of every row of table players
    reports,    \* rows of table report_api_keys with their line items, in insertion order
    planets,    \* rows of table planets: <<ogame_id, galaxy, system, position>> -> row
    last,       \* the last call made on the store and how it ended
    best,       \* what the last call of get_best_api_key returned
    sessions,   \* the open sessions of concurrent saves, by process
    shown,      \* the ReportWithDelta that was built last
    pass,       \* the open session of a planet pass that runs beside the saves
    trade,      \* the TradeView of a trade message and its open delivery modals
    acs,        \* PrivateChannel.active_channels, the guild's channels, the running commands
    links       \* rows of table discord_users: <<discord_id, ogame_id>>

vars == <<now, players, reports, planets, last, best, sessions, shown, pass,
               trade, acs, links>>

-----------------------------------------------------------------------------
(* Bounds of the model *)

MaxTime == 8
MaxReports == 2
MaxPlanets == 2
MaxStored == 2
MaxKeys == 3

(* timedelta(days=7) *)
TrustWindow == 7

NoTime == -1
NoneStr == <<>>
NoCoords == <<>>
NoName == "None"
NoResources == <<>>
NoKey == 0

\* The instants at which the clock is read: the start, and the days from
\* the end of the trust window on.
Instants == {t \in 0..MaxTime : t = 0 \/ t >= TrustWindow}

Players == {1, 2}
\* the players the members who submit battle simulator strings are linked to
Members == {1}
\* the players that players.xml lists; a report can name a defender that
\* the roster does not hold
Roster == {1}
SrTokens == {"sr-1", "sr-2", "sr-3", "sr-4", "sr-5"}
BattleSimTokens == {"bs-1"}
Tokens == SrTokens \cup BattleSimTokens

ResourceNames == {"metal", "crystal", "deuterium"}
EmptyDict == [k \in {} |-> 0]

\* coordinate strings, already split at ":"; NoneStr is None, <<"">> is ""
Digits == {"1", "2"}
CoordStrs == {<<"1", "1", "1">>, <<"1", "1", "2">>}
BadCoordStrs == {<<"1", "x", "1">>}

PEACEFUL_SHIPS == {202, 203, 208, 210, 212, 217, 216, 220}

-----------------------------------------------------------------------------
(* data_models *)

\* int(x) of one part of a coordinate string
IsInt(x) == x \in Digits
int(x) ==
    CASE x = "1" -> 1 [] x = "2" -> 2
      [] x = "109" -> 109 [] x = "199" -> 199 [] x = "200" -> 200
      [] x = "202" -> 202 [] x = "204" -> 204

\* str.isdigit() of a key of a battle simulator export: "-1", "name" and
\* "coords" are not made of digits
isdigit(x) == x \in Digits \cup {"109", "199", "200", "202", "204"}

str(n) == CASE n = 1 -> "1" [] n = 2 -> "2"

\* CoordinatesMixin.set_coords: the three integers, or ValueError
set_coords_ok(coord_str) ==
    /\ Len(coord_str) = 3
    /\ \A i \in 1..3 : IsInt(coord_str[i])

set_coords(coord_str) == [i \in 1..3 |-> int(coord_str[i])]

\* CoordinatesMixin.coord_str
coord_str(coords) == [i \in 1..3 |-> str(coords[i])]

\* Planet.has_recent_manual_edit
has_recent_manual_edit(planet, t) ==
    /\ planet.manual_edit # NoTime
    /\ planet.manual_edit >= t - TrustWindow

RECURSIVE SumOver(_, _)
SumOver(f, keys) ==
    IF keys = {} THEN 0
    ELSE LET k == CHOOSE x \in keys : TRUE
         IN f[k] + SumOver(f, keys \ {k})

\* ReportAPIKey.military_ships_total
military_ships_total(k) ==
    SumOver(k.ships, {s \in DOMAIN k.ships : s \notin PEACEFUL_SHIPS})

\* Player.report_api_keys: the player's reports, in table order
report_api_keys(rs, player_id) ==
    SelectSeq(rs, LAMBDA k : k.ogame_id = player_id)

PlanetKey(player_id, coords) ==
    <<player_id, coords[1], coords[2], coords[3]>>

KeyCoords(key) == <<key[2], key[3], key[4]>>

PlanetKeysOf(pl, player_id) == {key \in DOMAIN pl : key[1] = player_id}

\* a mapping with one more (or one replaced) entry
Put(f, key, value) ==
    [x \in DOMAIN f \cup {key} |-> IF x = key THEN value ELSE f[x]]

Drop(f, key) == [x \in DOMAIN f \ {key} |-> f[x]]

IndexOfToken(rs, token) ==
    IF \E i \in 1..Len(rs) : rs[i].report_api_key = token
    THEN CHOOSE i \in 1..Len(rs) : rs[i].report_api_key = token
    ELSE 0

-----------------------------------------------------------------------------
(* reports.get_best_api_key and ogame_api.get_best_api_key *)

\* Python's max(seq, key=...) over the positions idx of a list: the first
\* position whose key is not below any other
LexLess(a, b) == a[1] < b[1] \/ (a[1] = b[1] /\ a[2] < b[2])

MaxBy(idx, key) ==
    CHOOSE i \in idx : \A j \in idx :
        \/ LexLess(key[j], key[i])
        \/ (key[j] = key[i] /\ i <= j)

\* the scouting reports are looked at first
get_best_api_key_ogame_first(keys, t) ==
    LET recent_battle_sims == {i \in 1..Len(keys) :
            /\ keys[i].source = "BattleSim"
            /\ keys[i].created_at >= t - TrustWindow}
        ogame_keys == {i \in 1..Len(keys) : keys[i].source = "Ogame"}
        by_created == [i \in 1..Len(keys) |-> <<keys[i].created_at, 0>>]
        by_strength == [i \in 1..Len(keys) |->
            <<military_ships_total(keys[i]), keys[i].created_at>>]
    IN  IF ogame_keys # {} THEN MaxBy(ogame_keys, by_strength)
        ELSE IF recent_battle_sims = {} THEN NoKey
        ELSE MaxBy(recent_battle_sims, by_created)

\* a battle simulator export counts whatever its age
get_best_api_key_never_expires(keys, t) ==
    LET battle_sims == {i \in 1..Len(keys) : keys[i].source = "BattleSim"}
        ogame_keys == {i \in 1..Len(keys) : keys[i].source = "Ogame"}
        by_created == [i \in 1..Len(keys) |-> <<keys[i].created_at, 0>>]
        by_strength == [i \in 1..Len(keys) |->
            <<military_ships_total(keys[i]), keys[i].created_at>>]
    IN  IF battle_sims # {} THEN MaxBy(battle_sims, by_created)
        ELSE IF ogame_keys = {} THEN NoKey
        ELSE MaxBy(ogame_keys, by_strength)

\* the first of the recent battle simulator exports is returned
get_best_api_key_first_recent(keys, t) ==
    LET recent_battle_sims == {i \in 1..Len(keys) :
            /\ keys[i].source = "BattleSim"
            /\ keys[i].created_at >= t - TrustWindow}
        ogame_keys == {i \in 1..Len(keys) : keys[i].source = "Ogame"}
        by_strength == [i \in 1..Len(keys) |->
            <<military_ships_total(keys[i]), keys[i].created_at>>]
    IN  IF recent_battle_sims # {}
        THEN CHOOSE i \in recent_battle_sims :
                 \A j \in recent_battle_sims : i <= j
        ELSE IF ogame_keys = {} THEN NoKey
        ELSE MaxBy(ogame_keys, by_strength)

\* reports.get_best_api_key: the position in keys of the best key, NoKey for None
get_best_api_key(keys, t) ==
    LET recent_battle_sims == {i \in 1..Len(keys) :
            /\ keys[i].source = "BattleSim"
            /\ keys[i].created_at >= t - TrustWindow}
        ogame_keys == {i \in 1..Len(keys) : keys[i].source = "Ogame"}
        by_created == [i \in 1..Len(keys) |-> <<keys[i].created_at, 0>>]
        by_strength == [i \in 1..Len(keys) |->
            <<military_ships_total(keys[i]), keys[i].created_at>>]
    IN  IF recent_battle_sims # {} THEN MaxBy(recent_battle_sims, by_created)
        ELSE IF ogame_keys = {} THEN NoKey
        ELSE MaxBy(ogame_keys, by_strength)

\* ogame_api.get_best_api_key: the latest key within 80% of the largest fleet
ogame_api_get_best_api_key(keys, t) ==
    LET battle_sim_keys == {i \in 1..Len(keys) :
            /\ keys[i].source = "BattleSim"
            /\ keys[i].created_at >= t - TrustWindow}
        ogame_keys == {i \in 1..Len(keys) : keys[i].source = "Ogame"}
        total(i) == SumOver(keys[i].ships, DOMAIN keys[i].ships)
        largest == CHOOSE m \in {total(i) : i \in ogame_keys} :
                       \A i \in ogame_keys : total(i) <= m
        \* total >= largest * 0.8
        eligible == {i \in ogame_keys : 10 * total(i) >= 8 * largest}
        by_created == [i \in 1..Len(keys) |-> <<keys[i].created_at, 0>>]
    IN  IF battle_sim_keys # {} THEN MaxBy(battle_sim_keys, by_created)
        ELSE IF ogame_keys = {} THEN NoKey
        ELSE MaxBy(IF eligible # {} THEN eligible ELSE ogame_keys, by_created)

-----------------------------------------------------------------------------
(* The session: "with data_models.Session() as session" works on its own   *)
(* copy of the tables; session.commit() publishes the copy, and leaving    *)
(* the block on an exception closes the session without a commit.          *)

Store(rs, pl) == [reports |-> rs, planets |-> pl]

\* the block commits whatever the session holds when it is left
SessionExit_commits(before, work, err) == work

\* what the tables hold when the with block is left
SessionExit(before, work, err) == IF err = "ok" THEN work ELSE before

\* how a call ended: the exception (or "ok"), the tables it leaves, and
\* whether the session held unwritten changes at that point
Outcome(before, work, err) ==
    [err |-> err,
     reports |-> SessionExit(before, work, err).reports,
     planets |-> SessionExit(before, work, err).planets,
     dirty |-> work # before]

-----------------------------------------------------------------------------
(* reports.save_report_with_coords *)

\* "if coord_str:" is false for None and for the empty string
Truthy(s) == s # NoneStr /\ s # <<"">>

\* data_models.Resources(metal=resources.get("metal", 0), ...)
Resources(resources) ==
    IF DOMAIN resources = {} THEN NoResources
    ELSE [n \in ResourceNames |->
            IF n \in DOMAIN resources THEN resources[n] ELSE 0]

\* lines 53-57: the ships that are not peaceful
military_ships(ships) ==
    [s \in {x \in DOMAIN ships : x \notin PEACEFUL_SHIPS} |-> ships[s]]

\* lines 82-86: the ship line items of the report
ShipItems(ships) ==
    [s \in {x \in DOMAIN military_ships(ships) : ships[x] # 0} |-> ships[s]]

\* lines 73-96: the report built from the arguments
NewReport(a, ship_items) ==
    [report_api_key |-> a.report_api_key_str,
     created_at |-> a.created_at,
     ogame_id |-> a.player_id,
     source |-> a.source,
     from_moon |-> a.from_moon,
     coords |-> IF Truthy(a.coord_str) THEN set_coords(a.coord_str)
                ELSE NoCoords,
     ships |-> ship_items,
     techs |-> a.techs,
     resources |-> Resources(a.resources)]

\* the planet of the report is created as a planet pass creates it: without
\* a manual edit and without the moon of the report
LinkPlanet_observed(pl, a) ==
    LET key == PlanetKey(a.player_id, set_coords(a.coord_str))
    IN  IF key \notin DOMAIN pl
        THEN Put(pl, key, [name |-> NoName, has_moon |-> FALSE,
                           destroyed |-> FALSE, manual_edit |-> NoTime])
        ELSE pl

\* a report at a stored planet counts as a fresh manual assertion
LinkPlanet_refreshes(pl, a) ==
    LET key == PlanetKey(a.player_id, set_coords(a.coord_str))
    IN  IF key \notin DOMAIN pl
        THEN Put(pl, key, [name |-> NoName, has_moon |-> a.from_moon,
                           destroyed |-> FALSE, manual_edit |-> a.created_at])
        ELSE Put(pl, key, [pl[key] EXCEPT
                              !.has_moon = pl[key].has_moon \/ a.from_moon,
                              !.destroyed = FALSE,
                              !.manual_edit = a.created_at])

\* lines 99-109: the planet of the report is created, or gains its moon
LinkPlanet(pl, a) ==
    LET key == PlanetKey(a.player_id, set_coords(a.coord_str))
    IN  IF key \notin DOMAIN pl
        THEN Put(pl, key, [name |-> NoName, has_moon |-> a.from_moon,
                           destroyed |-> FALSE, manual_edit |-> a.created_at])
        ELSE IF a.from_moon /\ ~pl[key].has_moon
        THEN Put(pl, key, [pl[key] EXCEPT !.has_moon = TRUE])
        ELSE pl

\* the save makes no comparison with the best report
FewerShips_unchecked(rs, ps, t, a) == FALSE

\* lines 65-71: the report has fewer military ships than the best one; the
\* keys are taken in the order of the table, which decides the best key
\* only between keys that tie
FewerShips(rs, ps, t, a) ==
    LET keys == report_api_keys(rs, a.player_id)
        best_key == get_best_api_key(keys, t)
    IN  /\ ~a.force
        /\ a.player_id \in ps
        /\ best_key # NoKey
        /\ SumOver(military_ships(a.ships), DOMAIN military_ships(a.ships))
               < military_ships_total(keys[best_key])

\* the existence check is left to session.merge
AlreadyStored_merge(rs, token) == FALSE

\* line 60: session.get(ReportAPIKey, report_api_key_str) finds a row
AlreadyStored(rs, token) == IndexOfToken(rs, token) # 0

save_report_with_coords(rs, pl, ps, t, a) ==
    LET before == Store(rs, pl)
        merged == Store(Append(rs, NewReport(a, ShipItems(a.ships))), pl)
    IN  IF AlreadyStored(rs, a.report_api_key_str)
        THEN Outcome(before, before, "duplicate_key")
        ELSE IF FewerShips(rs, ps, t, a)
        THEN Outcome(before, before, "fewer_ships")
        ELSE IF Truthy(a.coord_str) /\ ~set_coords_ok(a.coord_str)
        THEN Outcome(before, before, "ValueError")
        ELSE IF Truthy(a.coord_str)
        THEN Outcome(before, Store(merged.reports, LinkPlanet(pl, a)), "ok")
        ELSE Outcome(before, merged, "ok")

-----------------------------------------------------------------------------
(* ogame_api.save_report_with_coords: the variant without the regression   *)
(* check; coord_str is not optional there                                  *)

\* lines 59-63: every ship that is not peaceful is a line item
ogame_api_ShipItems(ships) ==
    [s \in {x \in DOMAIN ships : x \notin PEACEFUL_SHIPS} |-> ships[s]]

ogame_api_save_report_with_coords(rs, pl, a) ==
    LET before == Store(rs, pl)
        report == [NewReport(a, ogame_api_ShipItems(a.ships))
                       EXCEPT !.coords = set_coords(a.coord_str)]
    IN  IF AlreadyStored(rs, a.report_api_key_str)
        THEN Outcome(before, before, "DuplicateKeyException")
        ELSE IF a.coord_str = NoneStr
        THEN Outcome(before, before, "AttributeError")
        ELSE IF ~set_coords_ok(a.coord_str)
        THEN Outcome(before, before, "ValueError")
        ELSE Outcome(before, Store(Append(rs, report), LinkPlanet(pl, a)), "ok")

-----------------------------------------------------------------------------
(* reports.delete_key *)

\* ReportAPIKey.has_coordinates
has_coordinates(report) == report.coords # NoCoords

\* every report of the token's player is deleted with it
delete_key_by_player(rs, pl, t, key, delete_planet) ==
    LET before == Store(rs, pl)
        i == IndexOfToken(rs, key)
        report_model == rs[i]
        rest == SelectSeq(rs, LAMBDA k : k.ogame_id # report_model.ogame_id)
    IN  IF i = 0
        THEN [ret |-> NoneStr] @@ Outcome(before, before, "not_found")
        ELSE [ret |-> NoneStr] @@ Outcome(before, Store(rest, pl), "ok")

\* the planet goes with the report whether or not it was edited by hand
delete_key_any_planet(rs, pl, t, key, delete_planet) ==
    LET before == Store(rs, pl)
        i == IndexOfToken(rs, key)
        report_model == rs[i]
        planet_key == PlanetKey(report_model.ogame_id, report_model.coords)
        deletes_planet ==
            /\ delete_planet
            /\ has_coordinates(report_model)
            /\ planet_key \in DOMAIN pl
        rest == SelectSeq(rs, LAMBDA k : k.report_api_key # key)
    IN  IF i = 0
        THEN [ret |-> NoneStr] @@ Outcome(before, before, "not_found")
        ELSE [ret |-> IF deletes_planet
                      THEN coord_str(KeyCoords(planet_key)) ELSE NoneStr]
             @@ Outcome(before,
                        Store(rest, IF deletes_planet
                                    THEN Drop(pl, planet_key) ELSE pl),
                        "ok")

\* the outcome of the with block, and the coordinate string returned (ret;
\* NoneStr is None)
delete_key(rs, pl, t, key, delete_planet) ==
    LET before == Store(rs, pl)
        i == IndexOfToken(rs, key)
        report_model == rs[i]
        planet_key == PlanetKey(report_model.ogame_id, report_model.coords)
        deletes_planet ==
            /\ delete_planet
            /\ has_coordinates(report_model)
            /\ planet_key \in DOMAIN pl
            /\ has_recent_manual_edit(pl[planet_key], t)
        deleted_coords ==
            IF deletes_planet
            THEN coord_str(KeyCoords(planet_key)) ELSE NoneStr
        rest == SelectSeq(rs, LAMBDA k : k.report_api_key # key)
    IN  IF i = 0
        THEN [ret |-> NoneStr] @@ Outcome(before, before, "not_found")
        ELSE [ret |-> deleted_coords]
             @@ Outcome(before,
                        Store(rest, IF deletes_planet THEN Drop(pl, planet_key)
                                    ELSE pl),
                        "ok")

-----------------------------------------------------------------------------
(* ogame_api.sync_planets *)

\* the entries playerData.xml can hold for a player: coordinates, whether
\* the entry has a moon, the name
Observations(player_id) ==
    {[coords |-> <<"1", "1", "1">>, moon |-> FALSE, name |-> "Homeworld"],
     [coords |-> <<"1", "1", "1">>, moon |-> TRUE, name |-> NoName],
     [coords |-> <<"1", "1", "2">>, moon |-> FALSE, name |-> "Homeworld"],
     [coords |-> <<"1", "x", "1">>, moon |-> FALSE, name |-> "Homeworld"]}

\* the moon flag is taken from the list as it is
MergeObserved_moon_assigned(pl, player_id, planet, t) ==
    LET key == PlanetKey(player_id, set_coords(planet.coords))
    IN  IF key \in DOMAIN pl
        THEN Put(pl, key,
                 [pl[key] EXCEPT
                    !.has_moon = planet.moon,
                    !.name = planet.name,
                    !.destroyed = IF has_recent_manual_edit(pl[key], t)
                                  THEN pl[key].destroyed ELSE FALSE])
        ELSE Put(pl, key, [name |-> planet.name, has_moon |-> planet.moon,
                           destroyed |-> FALSE, manual_edit |-> NoTime])

\* an observed stored planet is rewritten as a planet pass creates one:
\* without a manual edit
MergeObserved_edit_cleared(pl, player_id, planet, t) ==
    LET key == PlanetKey(player_id, set_coords(planet.coords))
    IN  Put(pl, key, [name |-> planet.name,
                      has_moon |-> IF key \in DOMAIN pl
                                   THEN pl[key].has_moon \/ planet.moon
                                   ELSE planet.moon,
                      destroyed |-> FALSE, manual_edit |-> NoTime])

\* an observed moon flips the stored moon flag
MergeObserved_moon_flipped(pl, player_id, planet, t) ==
    LET key == PlanetKey(player_id, set_coords(planet.coords))
    IN  IF key \in DOMAIN pl
        THEN Put(pl, key,
                 [pl[key] EXCEPT
                    !.has_moon = (pl[key].has_moon # planet.moon),
                    !.name = planet.name,
                    !.destroyed = IF has_recent_manual_edit(pl[key], t)
                                  THEN pl[key].destroyed ELSE FALSE])
        ELSE Put(pl, key, [name |-> planet.name, has_moon |-> planet.moon,
                           destroyed |-> FALSE, manual_edit |-> NoTime])

\* line 401 sets the flag of an unprotected planet instead of clearing it
MergeObserved_destroyed_set(pl, player_id, planet, t) ==
    LET key == PlanetKey(player_id, set_coords(planet.coords))
    IN  IF key \in DOMAIN pl
        THEN Put(pl, key,
                 [pl[key] EXCEPT
                    !.has_moon = pl[key].has_moon \/ planet.moon,
                    !.name = planet.name,
                    !.destroyed = IF has_recent_manual_edit(pl[key], t)
                                  THEN pl[key].destroyed ELSE TRUE])
        ELSE Put(pl, key, [name |-> planet.name, has_moon |-> planet.moon,
                           destroyed |-> FALSE, manual_edit |-> NoTime])

\* lines 397-413: one observed planet is merged into the session
MergeObserved(pl, player_id, planet, t) ==
    LET key == PlanetKey(player_id, set_coords(planet.coords))
    IN  IF key \in DOMAIN pl
        THEN Put(pl, key,
                 [pl[key] EXCEPT
                    !.has_moon = pl[key].has_moon \/ planet.moon,
                    !.name = planet.name,
                    !.destroyed = IF has_recent_manual_edit(pl[key], t)
                                  THEN pl[key].destroyed ELSE FALSE])
        ELSE Put(pl, key, [name |-> planet.name, has_moon |-> planet.moon,
                           destroyed |-> FALSE, manual_edit |-> NoTime])

\* lines 385-413: the loop over the observed planets, up to the first one
\* whose coordinates do not parse
RECURSIVE ObserveAll(_, _, _, _, _)
ObserveAll(pl, seen_coords, player_id, planets_in, t) ==
    IF planets_in = <<>>
    THEN [err |-> "ok", planets |-> pl, seen_coords |-> seen_coords]
    ELSE LET planet == Head(planets_in)
         IN  IF ~set_coords_ok(planet.coords)
             THEN [err |-> "ValueError", planets |-> pl,
                   seen_coords |-> seen_coords]
             ELSE ObserveAll(MergeObserved(pl, player_id, planet, t),
                             seen_coords \cup {set_coords(planet.coords)},
                             player_id, Tail(planets_in), t)

\* every stored planet that was not seen is deleted
RemoveUnseen_unguarded(pl, seen_coords, player_id, planets_in, t) ==
    [err |-> "ok",
     planets |-> [key \in {k \in DOMAIN pl :
                      k[1] = player_id => KeyCoords(k) \in seen_coords}
                  |-> pl[key]]]

\* the condition and the delete read planet_model
RemoveUnseen_planet_model(pl, seen_coords, player_id, planets_in, t) ==
    [err |-> "ok",
     planets |-> [key \in {k \in DOMAIN pl :
                      k[1] = player_id =>
                          \/ KeyCoords(k) \in seen_coords
                          \/ has_recent_manual_edit(pl[k], t)}
                  |-> pl[key]]]

\* lines 419-429: the loop over the stored planets of the player.  The
\* condition reads "planet", the last entry of the observed list (a dict,
\* or unbound when the list is empty), so the first stored planet that was
\* not seen ends the pass with an exception before anything is deleted.
RemoveUnseen(pl, seen_coords, player_id, planets_in, t) ==
    IF \A key \in PlanetKeysOf(pl, player_id) : KeyCoords(key) \in seen_coords
    THEN [err |-> "ok", planets |-> pl]
    ELSE [err |-> IF planets_in = <<>> THEN "UnboundLocalError"
                  ELSE "AttributeError",
          planets |-> pl]

sync_planets(rs, pl, t, player_id, planets_in) ==
    LET before == Store(rs, pl)
        observed == ObserveAll(pl, {}, player_id, planets_in, t)
        removed == RemoveUnseen(observed.planets, observed.seen_coords,
                                player_id, planets_in, t)
    IN  IF observed.err # "ok"
        THEN Outcome(before, Store(rs, observed.planets), observed.err)
        ELSE Outcome(before, Store(rs, removed.planets), removed.err)

-----------------------------------------------------------------------------
(* reports.ReportWithDelta *)

NoToken == ""

\* ReportWithDelta.is_sr_report: report_api_key.startswith("sr-")
is_sr_report(report_api_key) == report_api_key \in SrTokens

\* ReportAPIKey.report_details: the three categories of a report as
\* mappings; a report without a resource snapshot has no resources
report_details(report) ==
    [resources |-> IF report.resources = NoResources THEN EmptyDict
                   ELSE report.resources,
     ships |-> report.ships,
     techs |-> report.techs]

\* dict.get(k, 0)
get(d, k) == IF k \in DOMAIN d THEN d[k] ELSE 0

\* lines 280-284: new_val - old_val for every key of either mapping
CategoryDelta(new_cat, old_cat) ==
    [k \in DOMAIN new_cat \cup DOMAIN old_cat |->
        get(new_cat, k) - get(old_cat, k)]

NoDeltas == [resources |-> EmptyDict, ships |-> EmptyDict, techs |-> EmptyDict]

\* the filter takes every earlier report of the player, whatever its planet
LastReportFilter_any_planet(rs, new_report) ==
    {i \in 1..Len(rs) :
        /\ rs[i].source = "Ogame"
        /\ rs[i].ogame_id = new_report.ogame_id
        /\ rs[i].created_at < new_report.created_at}

\* lines 256-270: the rows the query for the last report keeps
LastReportFilter(rs, new_report) ==
    {i \in 1..Len(rs) :
        /\ rs[i].source = "Ogame"
        /\ rs[i].ogame_id = new_report.ogame_id
        /\ rs[i].from_moon = new_report.from_moon
        /\ rs[i].coords = new_report.coords
        /\ rs[i].created_at < new_report.created_at}

\* lines 271-273: order_by(created_at.desc()).first(), NoKey for None
LastReport(rs, new_report) ==
    LET kept == LastReportFilter(rs, new_report)
    IN  IF kept = {} THEN NoKey
        ELSE MaxBy(kept, [i \in 1..Len(rs) |-> <<rs[i].created_at, 0>>])

\* the deltas are new plus old
Deltas_added(new_report, last_report) ==
    [cat \in {"resources", "ships", "techs"} |->
        [k \in DOMAIN report_details(new_report)[cat]
               \cup DOMAIN report_details(last_report)[cat] |->
            get(report_details(new_report)[cat], k)
                + get(report_details(last_report)[cat], k)]]

\* lines 278-284: the deltas of the three categories
Deltas(new_report, last_report) ==
    [cat \in {"resources", "ships", "techs"} |->
        CategoryDelta(report_details(new_report)[cat],
                      report_details(last_report)[cat])]

\* the object the constructor of reports.py leaves: the token, the token of
\* the last report (NoToken for None) and the deltas
Shown(report_api_key, compute_delta, last_report, deltas) ==
    [by |-> "reports", report_api_key |-> report_api_key,
     compute_delta |-> compute_delta, last_report |-> last_report,
     deltas |-> deltas]

NoShown == [Shown(NoToken, FALSE, NoToken, NoDeltas) EXCEPT !.by = "none"]

\* the last report is looked up for every token
ReportWithDelta_every_source(rs, report_api_key, compute_delta) ==
    LET new_report == rs[IndexOfToken(rs, report_api_key)]
        last_report == LastReport(rs, new_report)
    IN  IF last_report = NoKey \/ ~compute_delta
        THEN Shown(report_api_key, compute_delta, NoToken, NoDeltas)
        ELSE Shown(report_api_key, compute_delta,
                   rs[last_report].report_api_key,
                   Deltas(new_report, rs[last_report]))

\* ReportWithDelta.__init__ for a stored token
ReportWithDelta(rs, report_api_key, compute_delta) ==
    LET new_report == rs[IndexOfToken(rs, report_api_key)]
        last_report == LastReport(rs, new_report)
    IN  IF ~is_sr_report(report_api_key)
        THEN Shown(report_api_key, compute_delta, NoToken, NoDeltas)
        ELSE IF last_report = NoKey \/ ~compute_delta
        THEN Shown(report_api_key, compute_delta, NoToken, NoDeltas)
        ELSE Shown(report_api_key, compute_delta,
                   rs[last_report].report_api_key,
                   Deltas(new_report, rs[last_report]))

\* ogame_api.ReportWithDelta.__init__ for a stored token: the same query,
\* and the last report stays attached when no deltas are asked for
ogame_api_ReportWithDelta(rs, report_api_key, compute_delta) ==
    LET new_report == rs[IndexOfToken(rs, report_api_key)]
        last_report == LastReport(rs, new_report)
        built ==
            IF ~is_sr_report(report_api_key) \/ last_report = NoKey
            THEN Shown(report_api_key, compute_delta, NoToken, NoDeltas)
            ELSE IF ~compute_delta
            THEN Shown(report_api_key, compute_delta,
                       rs[last_report].report_api_key, NoDeltas)
            ELSE Shown(report_api_key, compute_delta,
                       rs[last_report].report_api_key,
                       Deltas(new_report, rs[last_report]))
    IN  [built EXCEPT !.by = "ogame_api"]

-----------------------------------------------------------------------------
(* The feeds.  A report token names one report: what the scouting feed     *)
(* returns for an sr- token, and what a battle simulator string holds, is  *)
(* fixed by the token.                                                     *)

\* RESULT_DATA of the report-detail feed: defender, event time, planet,
\* ships, research and resources
ScoutingFeed(token) ==
    CASE token = "sr-1" ->
           [player_id |-> 1, created_at |-> 0, coord_str |-> <<"1", "1", "1">>,
            from_moon |-> FALSE, ships |-> (202 :> 1 @@ 204 :> 2),
            techs |-> (109 :> 1), resources |-> ("metal" :> 1)]
      [] token = "sr-2" ->
           [player_id |-> 1, created_at |-> TrustWindow,
            coord_str |-> <<"1", "1", "1">>,
            from_moon |-> TRUE, ships |-> (204 :> 1 @@ 205 :> 0),
            techs |-> (109 :> 2), resources |-> ("metal" :> 2 @@ "crystal" :> 1)]
      [] token = "sr-3" ->
           [player_id |-> 2, created_at |-> TrustWindow, coord_str |-> NoneStr,
            from_moon |-> FALSE, ships |-> (204 :> 2 @@ 205 :> 0),
            techs |-> (109 :> 1), resources |-> EmptyDict]
      [] token = "sr-4" ->
           [player_id |-> 2, created_at |-> 0, coord_str |-> NoneStr,
            from_moon |-> FALSE, ships |-> (204 :> 1),
            techs |-> EmptyDict, resources |-> EmptyDict]
      [] token = "sr-5" ->
           [player_id |-> 1, created_at |-> 0, coord_str |-> <<"1", "x", "1">>,
            from_moon |-> FALSE, ships |-> (204 :> 3),
            techs |-> EmptyDict, resources |-> EmptyDict]

\* the text of the battle simulator exports that members submit, split at
\* "|" and each part split at ";": <<>> is an empty part, a coordinate value
\* is shown split at ":" as everywhere
\*   bs-1  202;1|204;1|109;1         bs-2  coords;1:1:1|199;1|200;1
\*   bs-3  name;1|204;2|-1;1         bs-4  |204;1|
\*   bs-5  204;1|204;2               bs-6  204
\*   bs-7  204;x                     bs-8  coords;1:1:1|coords;1:1:2|109;2
split(battlesim_api_key) ==
    CASE battlesim_api_key = "bs-1" ->
           <<(<<"202", "1">>), (<<"204", "1">>), (<<"109", "1">>)>>
      [] battlesim_api_key = "bs-2" ->
           <<(<<"coords", <<"1", "1", "1">> >>), (<<"199", "1">>),
             (<<"200", "1">>)>>
      [] battlesim_api_key = "bs-3" ->
           <<(<<"name", "1">>), (<<"204", "2">>), (<<"-1", "1">>)>>
      [] battlesim_api_key = "bs-4" ->
           <<(<<>>), (<<"204", "1">>), (<<>>)>>
      [] battlesim_api_key = "bs-5" ->
           <<(<<"204", "1">>), (<<"204", "2">>)>>
      [] battlesim_api_key = "bs-6" ->
           <<(<<"204">>)>>
      [] battlesim_api_key = "bs-7" ->
           <<(<<"204", "x">>)>>
      [] battlesim_api_key = "bs-8" ->
           <<(<<"coords", <<"1", "1", "1">> >>),
             (<<"coords", <<"1", "1", "2">> >>), (<<"109", "2">>)>>

\* the key 200 is taken for a technology
ParsePart_ships_above(part, acc) ==
    IF part = <<>> THEN acc
    ELSE IF Len(part) # 2 THEN [acc EXCEPT !.err = "ValueError"]
    ELSE IF part[1] = "coords" THEN [acc EXCEPT !.coord_str = part[2]]
    ELSE IF ~isdigit(part[1]) THEN acc
    ELSE IF ~IsInt(part[2]) THEN [acc EXCEPT !.err = "ValueError"]
    ELSE IF int(part[1]) <= 200
    THEN [acc EXCEPT !.techs = Put(acc.techs, int(part[1]), int(part[2]))]
    ELSE [acc EXCEPT !.ships = Put(acc.ships, int(part[1]), int(part[2]))]

\* reports.parse_battlesim_api, lines 151-159: one part of the export; an
\* empty part is skipped, a part that does not split in two at ";" and a
\* value of a numeric key that is not an integer raise ValueError
ParsePart(part, acc) ==
    IF part = <<>> THEN acc
    ELSE IF Len(part) # 2 THEN [acc EXCEPT !.err = "ValueError"]
    ELSE IF part[1] = "coords" THEN [acc EXCEPT !.coord_str = part[2]]
    ELSE IF ~isdigit(part[1]) THEN acc
    ELSE IF ~IsInt(part[2]) THEN [acc EXCEPT !.err = "ValueError"]
    ELSE IF int(part[1]) < 200
    THEN [acc EXCEPT !.techs = Put(acc.techs, int(part[1]), int(part[2]))]
    ELSE [acc EXCEPT !.ships = Put(acc.ships, int(part[1]), int(part[2]))]

\* reports.parse_battlesim_api, lines 150-159: the loop over the parts of
\* the export, up to the first part that raises
RECURSIVE ParseParts(_, _)
ParseParts(parts, acc) ==
    IF parts = <<>> \/ acc.err # "ok" THEN acc
    ELSE ParseParts(Tail(parts), ParsePart(Head(parts), acc))

\* reports.parse_battlesim_api, lines 147-159: what the export holds
BattleSimExport(token) ==
    ParseParts(split(token),
               [err |-> "ok", coord_str |-> NoneStr, ships |-> EmptyDict,
                techs |-> EmptyDict])

\* reports.parse_ogame_sr, lines 132-143: the arguments of the save
SrArgs(sr_api_key, force) ==
    LET data == ScoutingFeed(sr_api_key)
    IN  [report_api_key_str |-> sr_api_key, player_id |-> data.player_id,
         ships |-> data.ships, techs |-> data.techs, source |-> "Ogame",
         created_at |-> data.created_at, coord_str |-> data.coord_str,
         from_moon |-> data.from_moon, resources |-> data.resources,
         force |-> force]

\* reports.parse_battlesim_api, lines 161-171: the arguments of the save
BattleSimArgs(battlesim_api_key, player_id, t, force) ==
    LET data == BattleSimExport(battlesim_api_key)
    IN  [report_api_key_str |-> battlesim_api_key, player_id |-> player_id,
         ships |-> data.ships, techs |-> data.techs, source |-> "BattleSim",
         created_at |-> t, coord_str |-> data.coord_str,
         from_moon |-> FALSE, resources |-> EmptyDict,
         force |-> force]

-----------------------------------------------------------------------------
(* The calls made on the store *)

\* the record of a call: its name, how it ended, and whether the session
\* held changes when the call ended
Called(op, err, dirty) == [op |-> op, err |-> err, dirty |-> dirty]

\* the record of a selection: the function that chose, the player, and the
\* position of the chosen key in the player's report_api_keys (NoKey: None)
Chosen(by, player_id, key) == [by |-> by, player_id |-> player_id, key |-> key]

NoBest == Chosen("none", 0, NoKey)

\* the processes that open sessions on the database file: the bot and a
\* script run next to it
Procs == {"bot", "script"}

NoArgs ==
    [report_api_key_str |-> "", player_id |-> 0, ships |-> EmptyDict,
     techs |-> EmptyDict, source |-> "", created_at |-> NoTime,
     coord_str |-> NoneStr, from_moon |-> FALSE, resources |-> EmptyDict,
     force |-> FALSE]

\* a process and its session: where the save stands, its arguments, whether
\* session.merge found a row, and how the save ended
SessionAt(pc, a, found, err) == [pc |-> pc, a |-> a, found |-> found, err |-> err]

NoSession == SessionAt("idle", NoArgs, FALSE, "none")

\* the session of a planet pass: where the pass stands, its arguments, the
\* next entry of the list, the rows session.get loaded, the rows as the
\* session holds them, the coordinates seen, and how the pass ended
PassAt(pc, player_id, planets_in, i, loaded, rows, seen_coords, err) ==
    [pc |-> pc, player_id |-> player_id, planets_in |-> planets_in, i |-> i,
     loaded |-> loaded, rows |-> rows, seen_coords |-> seen_coords,
     err |-> err]

NoPass == PassAt("idle", 0, <<>>, 1, EmptyDict, EmptyDict, {}, "none")

\* None for a Discord user id
NoUser == 0

\* the fields of a TradeView that the buttons read and write (trade.py,
\* lines 91-101), the state of the view (buttons disabled, stopped), the
\* embed its message shows, the users that hold an open DeliveryModal, and
\* whether a cancel is suspended at its edit_message
TradeAt(seller_id, buyer_id, buyer_location, seller_sent, buyer_sent, cancelled, disabled, stopped, embed, modals, cancelling) ==
    [seller_id |-> seller_id, buyer_id |-> buyer_id,
     buyer_location |-> buyer_location, seller_sent |-> seller_sent,
     buyer_sent |-> buyer_sent, cancelled |-> cancelled,
     disabled |-> disabled, stopped |-> stopped, embed |-> embed,
     modals |-> modals, cancelling |-> cancelling]

\* None for a delivery location
NoLocation == "None"

\* no trade message
NoTrade ==
    TradeAt(NoUser, NoUser, NoLocation, FALSE, FALSE, FALSE, FALSE, TRUE, "none",
            {}, FALSE)

\* no ACS channel, no command running
NoChannels ==
    [active_channels |-> EmptyDict, guild |-> {}, created |-> 0,
     tasks |-> EmptyDict]

\* data_models.py:158-161: create_all on a new file leaves every table empty
Init ==
    /\ now = 0
    /\ players = {}
    /\ reports = <<>>
    /\ planets = [key \in {} |-> 0]
    /\ last = Called("init", "ok", FALSE)
    /\ best = NoBest
    /\ sessions = [p \in Procs |-> NoSession]
    /\ shown = NoShown
    /\ pass = NoPass
    /\ trade = NoTrade
    /\ acs = NoChannels
    /\ links = {}

\* time passes
Tick ==
    /\ \E t \in Instants : t > now /\ now' = t
    /\ last' = Called("tick", "ok", FALSE)
    /\ best' = NoBest
    /\ UNCHANGED <<players, reports, planets, sessions, shown, pass,
               trade, acs, links>>

\* ogame_api.bulk_update_players: every player of players.xml is merged
bulk_update_players ==
    /\ players' = players \cup Roster
    /\ last' = Called("bulk_update_players", "ok", FALSE)
    /\ best' = NoBest
    /\ UNCHANGED <<now, reports, planets, sessions, shown, pass,
               trade, acs, links>>

\* the store after a call of save_report_with_coords with arguments a
Ingest(a) ==
    LET out == save_report_with_coords(reports, planets, players, now, a)
    IN  /\ Len(out.reports) <= MaxReports
        /\ reports' = out.reports
        /\ planets' = out.planets
        /\ Cardinality(DOMAIN out.planets) <= MaxStored
        /\ last' = Called("save_report_with_coords", out.err, out.dirty)
        /\ best' = NoBest
        /\ UNCHANGED <<now, players, sessions, shown, pass,
               trade, acs, links>>

\* reports.parse_ogame_sr: the report the scouting feed holds for the token
\* is saved; the event it reports is in the past
parse_ogame_sr ==
    \E sr_api_key \in SrTokens, force \in BOOLEAN :
        /\ ScoutingFeed(sr_api_key).created_at <= now
        /\ Ingest(SrArgs(sr_api_key, force))

\* reports.parse_battlesim_api: the battle simulator export is saved, as of
\* now, never from a moon and without resources. The add_key command
\* (thoth.py:274-288) has the player id from get_player_id or from the link
\* of the caller, so the player has a row in table players
parse_battlesim_api ==
    \E battlesim_api_key \in BattleSimTokens,
       player_id \in Members \cap players, force \in BOOLEAN :
        Ingest(BattleSimArgs(battlesim_api_key, player_id, now, force))

OgameApiIngest(a) ==
    LET out == ogame_api_save_report_with_coords(reports, planets, a)
    IN  /\ Len(out.reports) <= MaxReports
        /\ Cardinality(DOMAIN out.planets) <= MaxStored
        /\ reports' = out.reports
        /\ planets' = out.planets
        /\ last' = Called("ogame_api.save_report_with_coords", out.err,
                          out.dirty)
        /\ best' = NoBest
        /\ UNCHANGED <<now, players, sessions, shown, pass,
               trade, acs, links>>

\* ogame_api.parse_ogame_sr and ogame_api.parse_battlesim_api
ogame_api_parse_ogame_sr ==
    \E sr_api_key \in SrTokens :
        /\ ScoutingFeed(sr_api_key).created_at <= now
        /\ OgameApiIngest(SrArgs(sr_api_key, FALSE))

ogame_api_parse_battlesim_api ==
    \E battlesim_api_key \in BattleSimTokens,
       player_id \in Members \cap players :
        OgameApiIngest(BattleSimArgs(battlesim_api_key, player_id, now, FALSE))

\* the order in which playerData.xml lists the coordinates of a player
FeedOrder(coords) ==
    CASE coords = <<"1", "1", "1">> -> 1
      [] coords = <<"1", "x", "1">> -> 2
      [] coords = <<"1", "1", "2">> -> 3

\* the planet lists a pass is given: a player has at least one planet, and
\* the list names each coordinate once, in the order of the feed
PlanetLists(player_id) ==
    {l \in UNION {[1..n -> Observations(player_id)] : n \in 1..MaxPlanets} :
        \A i, j \in DOMAIN l :
            i < j => FeedOrder(l[i].coords) < FeedOrder(l[j].coords)}

\* ptre.get_planet_infos(player_id): the galaxy_array PTRE holds for the
\* player, as (coordinate, moon, timestamp) entries; NoTime for no timestamp
get_planet_infos(player_id) ==
    IF player_id = 1
    THEN {[coords |-> <<1, 1, 1>>, moon |-> TRUE, timestamp |-> 0],
          [coords |-> <<1, 1, 2>>, moon |-> FALSE, timestamp |-> NoTime]}
    ELSE {}

\* the coordinates a planet list names
Named(planets_in) ==
    {set_coords(planets_in[i].coords) : i \in
        {j \in DOMAIN planets_in : set_coords_ok(planets_in[j].coords)}}

\* the stored planets of the player that the list does not name
Absent(pl, player_id, planets_in) ==
    {key \in PlanetKeysOf(pl, player_id) :
        KeyCoords(key) \notin Named(planets_in)}

\* ogame_api.get_player_info, lines 555-574: the planets of playerData.xml
\* are synced, then the best key of the player is chosen
Sync(player_id, planets_in) ==
    LET out == sync_planets(reports, planets, now, player_id, planets_in)
        keys == report_api_keys(out.reports, player_id)
    IN  /\ Cardinality(DOMAIN out.planets) <= MaxStored
        /\ planets' = out.planets
        /\ reports' = out.reports
        /\ last' = Called("sync_planets", out.err, out.dirty)
        /\ best' = IF out.err = "ok"
                   THEN Chosen("ogame_api", player_id,
                               ogame_api_get_best_api_key(keys, now))
                   ELSE NoBest
        /\ UNCHANGED <<now, players, sessions, shown, pass,
               trade, acs, links>>

\* the lookup command resolves the name in table players first
get_player_info ==
    \E player_id \in players :
      \E planets_in \in PlanetLists(player_id) :
        Sync(player_id, planets_in)

Delete(key, delete_planet) ==
    LET out == delete_key(reports, planets, now, key, delete_planet)
    IN  /\ reports' = out.reports
        /\ planets' = out.planets
        /\ last' = [ret |-> out.ret] @@ Called("delete_key", out.err, out.dirty)
        /\ best' = NoBest
        /\ UNCHANGED <<now, players, sessions, shown, pass,
               trade, acs, links>>

delete_key_command ==
    \E key \in Tokens, delete_planet \in BOOLEAN : Delete(key, delete_planet)

Next ==
    \/ Tick
    \/ bulk_update_players
    \/ parse_ogame_sr
    \/ parse_battlesim_api
    \/ ogame_api_parse_ogame_sr
    \/ ogame_api_parse_battlesim_api
    \/ get_player_info
    \/ delete_key_command

Spec == Init /\ [][Next]_vars

-----------------------------------------------------------------------------
(* The selection on its own: get_best_api_key of reports.py and of         *)
(* ogame_api.py applied to the report_api_keys of one player               *)

\* one stored key of player 1; a battle simulator export is submitted
\* under a token of its own
StoredKey(i, source, created_at, count) ==
    [report_api_key |-> IF source = "Ogame"
                        THEN <<"sr-1", "sr-2", "sr-3", "sr-4">>[i]
                        ELSE <<"bs-1", "bs-2", "bs-3", "bs-4">>[i],
     created_at |-> created_at,
     ogame_id |-> 1,
     source |-> source,
     from_moon |-> FALSE,
     coords |-> NoCoords,
     ships |-> (204 :> count),
     techs |-> EmptyDict,
     resources |-> NoResources]

\* fleets of which the second is within 80% of the third and the first is not
FleetSizes == {1, 4, 5}

\* what tells the keys of a list apart: source, creation time, fleet; no
\* key is created after the instant t
KeyChoices(t) ==
    {"Ogame", "BattleSim"} \X {c \in Instants : c <= t} \X FleetSizes

\* the list of keys of the choices l
KeyList(l) ==
    [i \in DOMAIN l |-> StoredKey(i, l[i][1], l[i][2], l[i][3])]

InitBest ==
    /\ now \in Instants
    /\ players = Roster
    /\ \E n \in 0..MaxKeys :
          \E l \in [1..n -> KeyChoices(now)] : reports = KeyList(l)
    /\ planets = [key \in {} |-> 0]
    /\ last = Called("init", "ok", FALSE)
    /\ best = NoBest
    /\ sessions = [p \in Procs |-> NoSession]
    /\ shown = NoShown
    /\ pass = NoPass
    /\ trade = NoTrade
    /\ acs = NoChannels
    /\ links = {}

\* data_models.py:26: relationship("ReportAPIKey") has no order_by, so the
\* SELECT that loads player_model.report_api_keys has no ORDER BY and the
\* rows come in an order the database chooses at each load
LoadOrders(n) ==
    {f \in [1..n -> 1..n] : \A i, j \in 1..n : f[i] = f[j] => i = j}

\* the list player_model.report_api_keys when the rows keys are loaded in
\* the order f
Loaded(keys, f) == [i \in 1..Len(keys) |-> keys[f[i]]]

\* the row of the table that is at position k of the list loaded in order f
RowOf(f, k) == IF k = NoKey THEN NoKey ELSE f[k]

\* reports.get_best_api_key(player_model), as cargo.py and trade.py call it:
\* the keys are loaded, then max() returns the first maximal key of the list
reports_get_best_api_key ==
    /\ \E f \in LoadOrders(Len(report_api_keys(reports, 1))) :
          LET keys == Loaded(report_api_keys(reports, 1), f)
          IN  best' = Chosen("reports", 1,
                             RowOf(f, get_best_api_key(keys, now)))
    /\ UNCHANGED <<now, players, reports, planets, last, sessions, shown, pass,
               trade, acs, links>>

\* ogame_api.get_best_api_key(player_model), as get_player_info calls it
ogame_api_get_best_api_key_of_player ==
    /\ \E f \in LoadOrders(Len(report_api_keys(reports, 1))) :
          LET keys == Loaded(report_api_keys(reports, 1), f)
          IN  best' = Chosen("ogame_api", 1,
                             RowOf(f, ogame_api_get_best_api_key(keys, now)))
    /\ UNCHANGED <<now, players, reports, planets, last, sessions, shown, pass,
               trade, acs, links>>

NextBest ==
    \/ reports_get_best_api_key
    \/ ogame_api_get_best_api_key_of_player

SpecBest == InitBest /\ [][NextBest]_vars

\* reports.get_best_api_key(player_model) called when the clock reads t:
\* datetime.now() is evaluated inside the function, at the instant of the
\* call, and the keys are loaded anew by the session of the call
reports_get_best_api_key_at ==
    /\ \E t \in {i \in Instants : i >= now} :
        \E f \in LoadOrders(Len(report_api_keys(reports, 1))) :
          LET keys == Loaded(report_api_keys(reports, 1), f)
          IN  /\ now' = t
              /\ best' = Chosen("reports", 1,
                                RowOf(f, get_best_api_key(keys, t)))
    /\ UNCHANGED <<players, reports, planets, last, sessions, shown, pass,
               trade, acs, links>>

NextBestClock == reports_get_best_api_key_at

SpecBestClock == InitBest /\ [][NextBestClock]_vars

-----------------------------------------------------------------------------
(* The planet passes on their own: get_player_info on a table planets as    *)
(* earlier saves have left it. Column destroyed (data_models.py:53) is      *)
(* False in every row: its default is False and the only statements that    *)
(* assign it (ogame_api.py:401 and 411) assign False.                       *)

\* a row of table planets
PlanetRows(t) ==
    [name : {NoName}, has_moon : BOOLEAN, destroyed : {FALSE},
     manual_edit : {NoTime} \cup {c \in Instants : c <= t}]

\* the planets of player 1 that the table may hold
SyncKeys == {PlanetKey(1, <<1, 1, 1>>), PlanetKey(1, <<1, 1, 2>>)}

InitSync ==
    /\ now \in Instants
    /\ players = Roster
    /\ reports = <<>>
    /\ \E keys \in SUBSET SyncKeys : planets \in [keys -> PlanetRows(now)]
    /\ last = Called("init", "ok", FALSE)
    /\ best = NoBest
    /\ sessions = [p \in Procs |-> NoSession]
    /\ shown = NoShown
    /\ pass = NoPass
    /\ trade = NoTrade
    /\ acs = NoChannels
    /\ links = {}

NextSync == get_player_info

SpecSync == InitSync /\ [][NextSync]_vars

\* the saves over such a table
NextLink ==
    \/ parse_ogame_sr
    \/ parse_battlesim_api
    \/ ogame_api_parse_ogame_sr

SpecLink == InitSync /\ [][NextLink]_vars

-----------------------------------------------------------------------------
(* Two players: players.xml lists both, and bulk_update_players has         *)
(* merged a row for each of them into table players                        *)

InitPlayers ==
    /\ now = TrustWindow
    /\ players = Players
    /\ reports = <<>>
    /\ planets = [key \in {} |-> 0]
    /\ last = Called("init", "ok", FALSE)
    /\ best = NoBest
    /\ sessions = [p \in Procs |-> NoSession]
    /\ shown = NoShown
    /\ pass = NoPass
    /\ trade = NoTrade
    /\ acs = NoChannels
    /\ links = {}

-----------------------------------------------------------------------------
(* The adapters on their own: reports.add_key given scouting tokens and    *)
(* battle simulator exports, with and without a player                     *)

\* player_id=None
NoPlayer == 0

\* the battle simulator exports that are submitted
ExportTokens ==
    {"bs-1", "bs-2", "bs-3", "bs-4", "bs-5", "bs-6", "bs-7", "bs-8"}

\* reports.add_key: a token that starts with "sr-" goes to parse_ogame_sr,
\* any other needs a player and goes to parse_battlesim_api, which parses
\* the whole export before it saves
AddKey(key, player_id, force) ==
    IF is_sr_report(key)
    THEN /\ ScoutingFeed(key).created_at <= now
         /\ Ingest(SrArgs(key, force))
    ELSE IF player_id = NoPlayer
    THEN /\ last' = Called("add_key", "missing_player_id", FALSE)
         /\ best' = NoBest
         /\ UNCHANGED <<now, players, reports, planets, sessions, shown, pass,
               trade, acs, links>>
    ELSE IF BattleSimExport(key).err # "ok"
    THEN /\ last' = Called("parse_battlesim_api", BattleSimExport(key).err,
                           FALSE)
         /\ best' = NoBest
         /\ UNCHANGED <<now, players, reports, planets, sessions, shown, pass,
               trade, acs, links>>
    ELSE Ingest(BattleSimArgs(key, player_id, now, force))

NextParse ==
    \/ \E key \in SrTokens \cup ExportTokens,
          player_id \in Members \cup {NoPlayer}, force \in BOOLEAN :
           AddKey(key, player_id, force)
    \/ delete_key_command

SpecParse == InitPlayers /\ [][NextParse]_vars

-----------------------------------------------------------------------------
(* The deltas on their own: ReportWithDelta built for the reports of a     *)
(* store                                                                   *)

\* what a report shares with the report it is compared to, or does not:
\* source, player, planet and moon flag
DeltaKinds ==
    {[source |-> "Ogame", ogame_id |-> 1, coords |-> <<1, 1, 1>>,
      from_moon |-> FALSE],
     [source |-> "BattleSim", ogame_id |-> 1, coords |-> <<1, 1, 1>>,
      from_moon |-> FALSE],
     [source |-> "Ogame", ogame_id |-> 2, coords |-> <<1, 1, 1>>,
      from_moon |-> FALSE],
     [source |-> "Ogame", ogame_id |-> 1, coords |-> NoCoords,
      from_moon |-> FALSE],
     [source |-> "Ogame", ogame_id |-> 1, coords |-> <<1, 1, 1>>,
      from_moon |-> TRUE]}

\* the i-th stored report: the reports at odd places hold one fleet, those
\* at even places another
DeltaReport(i, kind, created_at) ==
    [report_api_key |-> IF kind.source = "Ogame"
                        THEN <<"sr-1", "sr-2", "sr-3", "sr-4">>[i]
                        ELSE <<"bs-1", "bs-2", "bs-3", "bs-4">>[i],
     created_at |-> created_at,
     ogame_id |-> kind.ogame_id,
     source |-> kind.source,
     from_moon |-> kind.from_moon,
     coords |-> kind.coords,
     ships |-> IF i % 2 = 1 THEN (204 :> 2 @@ 205 :> 1)
               ELSE (204 :> 1 @@ 206 :> 3),
     techs |-> IF i % 2 = 1 THEN (109 :> 1) ELSE (109 :> 2 @@ 110 :> 1),
     resources |-> IF kind.source = "Ogame" /\ i % 2 = 1
                   THEN Resources("metal" :> 1)
                   ELSE NoResources]

InitDelta ==
    /\ now = MaxTime
    /\ players = Roster
    /\ \E n \in 0..MaxKeys :
          \E l \in [1..n -> DeltaKinds \X Instants] :
              reports = [i \in 1..n |-> DeltaReport(i, l[i][1], l[i][2])]
    /\ planets = [key \in {} |-> 0]
    /\ last = Called("init", "ok", FALSE)
    /\ best = NoBest
    /\ sessions = [p \in Procs |-> NoSession]
    /\ shown = NoShown
    /\ pass = NoPass
    /\ trade = NoTrade
    /\ acs = NoChannels
    /\ links = {}

\* the add_key command and the report view build a ReportWithDelta for a
\* stored token, with or without deltas
show_report ==
    /\ \E i \in 1..Len(reports), compute_delta \in BOOLEAN :
          shown' = ReportWithDelta(reports, reports[i].report_api_key,
                                   compute_delta)
    /\ UNCHANGED <<now, players, reports, planets, last, best, sessions,
                   pass, trade, acs, links>>

\* OgamePlayer.to_discord_embed builds an ogame_api.ReportWithDelta for the
\* best key without deltas; the constructor takes both forms
ogame_api_show_report ==
    /\ \E i \in 1..Len(reports), compute_delta \in BOOLEAN :
          shown' = ogame_api_ReportWithDelta(reports,
                                             reports[i].report_api_key,
                                             compute_delta)
    /\ UNCHANGED <<now, players, reports, planets, last, best, sessions,
                   pass, trade, acs, links>>

NextDelta ==
    \/ show_report
    \/ ogame_api_show_report

SpecDelta == InitDelta /\ [][NextDelta]_vars

-----------------------------------------------------------------------------
(* Two processes saving at the same time.  Each works in a session of its  *)
(* own on the one SQLite file: a read sees what is committed, the first    *)
(* write of a session takes the write lock of the file, and the lock is    *)
(* held until the session commits.                                         *)

\* the saves a process can be asked for at t: those whose coordinates parse
ConcTokens == {"sr-1", "bs-1"}

ConcCalls(t) ==
    {SrArgs(k, f) : k \in ConcTokens \cap SrTokens, f \in BOOLEAN}
    \cup {BattleSimArgs(k[1], k[2], t, f) :
              k \in (ConcTokens \cap BattleSimTokens) \X Members,
              f \in BOOLEAN}

\* session.merge on a row that exists: the row takes the state of the
\* given report, its ships and techs are replaced; what the given report
\* does not set stays
Overwrite(old, new) ==
    [new EXCEPT
        !.coords = IF new.coords = NoCoords THEN old.coords ELSE new.coords,
        !.resources = IF new.resources = NoResources THEN old.resources
                      ELSE new.resources]

\* the table after the flushed report is committed
Merged(rs, report) ==
    LET i == IndexOfToken(rs, report.report_api_key)
    IN  IF i = 0 THEN Append(rs, report)
        ELSE [rs EXCEPT ![i] = Overwrite(rs[i], report)]

\* a process of the write lock of the file: one that flushed and has not
\* committed
HoldsLock(p) == sessions[p].pc = "flushed"

\* the planets a pass has added to its session, and whether the session
\* holds anything to write
PassNew == DOMAIN pass.rows \ DOMAIN pass.loaded

PassWrites ==
    \/ PassNew # {}
    \/ \E key \in DOMAIN pass.loaded : pass.rows[key] # pass.loaded[key]

\* a planet pass holds the write lock from the first flush that writes: the
\* autoflush of session.get at line 394 or that of the query of line 414
PassHoldsLock ==
    \/ pass.pc = "locked"
    \/ pass.pc = "flushed" /\ PassWrites

Ended(p, a, err) ==
    /\ sessions' = [sessions EXCEPT ![p] = SessionAt("done", a, FALSE, err)]
    /\ last' = Called("save_report_with_coords", err, FALSE)

\* lines 59-64: the existence check, a read of table report_api_keys
Check(p, a) ==
    /\ sessions[p].pc = "idle"
    /\ a.created_at <= now
    /\ IF AlreadyStored(reports, a.report_api_key_str)
       THEN Ended(p, a, "duplicate_key")
       ELSE /\ sessions' = [sessions EXCEPT
                               ![p] = SessionAt("got", a, FALSE, "none")]
            /\ UNCHANGED last
    /\ best' = NoBest
    /\ UNCHANGED <<now, players, reports, planets, shown, pass,
               trade, acs, links>>

\* line 65: session.get(Player, player_id), a read of table players
GetPlayer(p) ==
    /\ sessions[p].pc = "got"
    /\ sessions' = [sessions EXCEPT
           ![p].pc = IF sessions[p].a.player_id \in players
                     THEN "player" ELSE "no_player"]
    /\ UNCHANGED <<now, players, reports, planets, last, best, shown, pass,
               trade, acs, links>>

\* lines 66-81: the regression check reads the keys of the player as they
\* are committed now; then the report is built from the arguments
Compare(p) ==
    LET a == sessions[p].a
        player == IF sessions[p].pc = "player" THEN {a.player_id} ELSE {}
    IN  /\ sessions[p].pc \in {"player", "no_player"}
        /\ IF FewerShips(reports, player, now, a)
           THEN Ended(p, a, "fewer_ships")
           ELSE IF Truthy(a.coord_str) /\ ~set_coords_ok(a.coord_str)
           THEN Ended(p, a, "ValueError")
           ELSE /\ sessions' = [sessions EXCEPT ![p].pc = "checked"]
                /\ UNCHANGED last
        /\ UNCHANGED <<now, players, reports, planets, best, shown, pass,
               trade, acs, links>>

\* line 97: session.merge reads the row of the token
Merge(p) ==
    /\ sessions[p].pc = "checked"
    /\ sessions' = [sessions EXCEPT
           ![p] = SessionAt("merged", sessions[p].a,
                            AlreadyStored(reports,
                                          sessions[p].a.report_api_key_str),
                            "none")]
    /\ UNCHANGED <<now, players, reports, planets, last, best, shown, pass,
               trade, acs, links>>

\* line 98: session.flush writes the report: an INSERT when merge found no
\* row, which fails on a row committed since; an UPDATE of the row found
Flush(p) ==
    /\ sessions[p].pc = "merged"
    /\ \A q \in Procs \ {p} : ~HoldsLock(q)
    /\ ~PassHoldsLock
    /\ IF /\ ~sessions[p].found
          /\ AlreadyStored(reports, sessions[p].a.report_api_key_str)
       THEN Ended(p, sessions[p].a, "IntegrityError")
       ELSE /\ sessions' = [sessions EXCEPT ![p].pc = "flushed"]
            /\ UNCHANGED last
    /\ UNCHANGED <<now, players, reports, planets, best, shown, pass,
               trade, acs, links>>

\* line 98, the file stays locked for longer than the busy timeout
FlushTimeout(p) ==
    /\ sessions[p].pc = "merged"
    /\ PassHoldsLock \/ \E q \in Procs \ {p} : HoldsLock(q)
    /\ Ended(p, sessions[p].a, "OperationalError")
    /\ UNCHANGED <<now, players, reports, planets, best, shown, pass,
               trade, acs, links>>

\* lines 99-111: the planet is linked and the session commits
Commit(p) ==
    LET a == sessions[p].a
    IN  /\ sessions[p].pc = "flushed"
        /\ reports' = Merged(reports, NewReport(a, ShipItems(a.ships)))
        /\ planets' = IF Truthy(a.coord_str) THEN LinkPlanet(planets, a)
                      ELSE planets
        /\ sessions' = [sessions EXCEPT ![p] = SessionAt("done", a,
                                                       sessions[p].found, "ok")]
        /\ last' = Called("save_report_with_coords", "ok", TRUE)
        /\ UNCHANGED <<now, players, best, shown, pass,
               trade, acs, links>>

TickConc ==
    /\ \E t \in Instants : t > now /\ now' = t
    /\ UNCHANGED <<players, reports, planets, last, best, sessions, shown, pass,
               trade, acs, links>>

\* the store the two processes find: bulk_update_players has run, and
\* parse_ogame_sr has stored the report sr-1 or no report is stored
InitConc ==
    LET stored == save_report_with_coords(<<>>, [key \in {} |-> 0], Roster, 0,
                                          SrArgs("sr-1", FALSE))
    IN  /\ now = 0
        /\ players = Roster
        /\ \/ reports = <<>> /\ planets = [key \in {} |-> 0]
           \/ reports = stored.reports /\ planets = stored.planets
        /\ last = Called("init", "ok", FALSE)
        /\ best = NoBest
        /\ sessions = [p \in Procs |-> NoSession]
        /\ shown = NoShown
        /\ pass = NoPass
        /\ trade = NoTrade
        /\ acs = NoChannels
        /\ links = {}

NextConc ==
    \/ TickConc
    \/ \E p \in Procs : \E a \in ConcCalls(now) : Check(p, a)
    \/ \E p \in Procs : GetPlayer(p)
    \/ \E p \in Procs : Compare(p)
    \/ \E p \in Procs : Merge(p)
    \/ \E p \in Procs : Flush(p)
    \/ \E p \in Procs : FlushTimeout(p)
    \/ \E p \in Procs : Commit(p)

SpecConc == InitConc /\ [][NextConc]_vars

-----------------------------------------------------------------------------
(* A planet pass beside the saves.  sync_planets reads each planet with    *)
(* session.get and keeps what it adds and changes in its session.  Each    *)
(* session.get and the query of line 414 flush the session before they     *)
(* read: the first flush that has something to write takes the write lock  *)
(* of the file, and the pass holds it to its end.                          *)

\* the table has no primary key on the coordinates
InsertConflict_none(pl, new_keys) == FALSE

\* data_models.Planet: (ogame_id, galaxy, system, position) is the primary
\* key, an INSERT of a key the table holds fails
InsertConflict(pl, new_keys) == \E key \in new_keys : key \in DOMAIN pl

\* the UPDATE of a loaded row sets the columns the session changed
Updated(row, loaded, cur) ==
    [name |-> IF cur.name # loaded.name THEN cur.name ELSE row.name,
     has_moon |-> IF cur.has_moon # loaded.has_moon THEN cur.has_moon
                  ELSE row.has_moon,
     destroyed |-> IF cur.destroyed # loaded.destroyed THEN cur.destroyed
                   ELSE row.destroyed,
     manual_edit |-> row.manual_edit]

\* table planets with the writes of the pass
PassView(pl) ==
    [key \in DOMAIN pl \cup PassNew |->
        IF key \in PassNew THEN pass.rows[key]
        ELSE IF key \in DOMAIN pass.loaded
        THEN Updated(pl[key], pass.loaded[key], pass.rows[key])
        ELSE pl[key]]

PassEnded(err) ==
    /\ pass' = [pass EXCEPT !.pc = "done", !.err = err]
    /\ last' = Called("sync_planets", err, PassWrites)

\* get_player_info calls sync_planets with the planets of playerData.xml
PassBegin ==
    /\ pass.pc = "idle"
    /\ \E player_id \in players :
         \E planets_in \in PlanetLists(player_id) :
           pass' = PassAt("loop", player_id, planets_in, 1, EmptyDict,
                          EmptyDict, {}, "none")
    /\ UNCHANGED <<now, players, reports, planets, last, best, sessions, shown,
               trade, acs, links>>

\* lines 386-413: one turn of the loop over the observed planets.  The
\* session.get of line 394 first flushes what the earlier turns left in the
\* session: from then on the pass holds the write lock
PassGet ==
    /\ pass.pc \in {"loop", "locked"}
    /\ pass.i <= Len(pass.planets_in)
    /\ LET planet == pass.planets_in[pass.i]
           key == PlanetKey(pass.player_id, set_coords(planet.coords))
           flush == pass.pc = "loop" /\ PassWrites
       IN  IF ~set_coords_ok(planet.coords)
           THEN PassEnded("ValueError")
           ELSE /\ flush => \A q \in Procs : ~HoldsLock(q)
                /\ IF flush /\ InsertConflict(planets, PassNew)
                   THEN PassEnded("IntegrityError")
                   ELSE /\ pass' = [pass EXCEPT
                              !.pc = IF flush THEN "locked" ELSE pass.pc,
                              !.i = pass.i + 1,
                              !.loaded = IF key \in DOMAIN planets
                                         THEN Put(pass.loaded, key, planets[key])
                                         ELSE pass.loaded,
                              !.rows = Put(pass.rows, key,
                                           MergeObserved(planets, pass.player_id,
                                                         planet, now)[key]),
                              !.seen_coords = pass.seen_coords
                                                \cup {set_coords(planet.coords)}]
                        /\ UNCHANGED last
    /\ UNCHANGED <<now, players, reports, planets, best, sessions, shown,
               trade, acs, links>>

\* lines 414-429: the query flushes the session and reads the planets of the
\* player, the loop over them looks for the planets that were not seen
PassFlush ==
    /\ pass.pc \in {"loop", "locked"}
    /\ pass.i > Len(pass.planets_in)
    /\ (pass.pc = "loop" /\ PassWrites) => \A q \in Procs : ~HoldsLock(q)
    /\ IF pass.pc = "loop" /\ InsertConflict(planets, PassNew)
       THEN PassEnded("IntegrityError")
       ELSE LET removed == RemoveUnseen(PassView(planets), pass.seen_coords,
                                        pass.player_id, pass.planets_in, now)
            IN  IF removed.err # "ok"
                THEN PassEnded(removed.err)
                ELSE /\ pass' = [pass EXCEPT !.pc = "flushed"]
                     /\ UNCHANGED last
    /\ UNCHANGED <<now, players, reports, planets, best, sessions, shown,
               trade, acs, links>>

\* lines 394 and 414: the flush finds the file locked for longer than the
\* busy timeout
PassFlushTimeout ==
    /\ pass.pc = "loop"
    /\ IF pass.i > Len(pass.planets_in) THEN TRUE
       ELSE set_coords_ok(pass.planets_in[pass.i].coords)
    /\ PassWrites
    /\ \E q \in Procs : HoldsLock(q)
    /\ PassEnded("OperationalError")
    /\ UNCHANGED <<now, players, reports, planets, best, sessions, shown,
               trade, acs, links>>

\* line 430: session.commit
PassCommit ==
    /\ pass.pc = "flushed"
    /\ planets' = PassView(planets)
    /\ pass' = [pass EXCEPT !.pc = "done", !.err = "ok"]
    /\ last' = Called("sync_planets", "ok", PassWrites)
    /\ UNCHANGED <<now, players, reports, best, sessions, shown,
               trade, acs, links>>

\* the store beside which the pass runs: bulk_update_players has run
InitRace ==
    /\ now = 0
    /\ players = Roster
    /\ reports = <<>>
    /\ planets = [key \in {} |-> 0]
    /\ last = Called("init", "ok", FALSE)
    /\ best = NoBest
    /\ sessions = [p \in Procs |-> NoSession]
    /\ shown = NoShown
    /\ pass = NoPass
    /\ trade = NoTrade
    /\ acs = NoChannels
    /\ links = {}

NextRace ==
    \/ \E p \in Procs : \E a \in ConcCalls(now) : Check(p, a)
    \/ \E p \in Procs : GetPlayer(p)
    \/ \E p \in Procs : Compare(p)
    \/ \E p \in Procs : Merge(p)
    \/ \E p \in Procs : Flush(p)
    \/ \E p \in Procs : FlushTimeout(p)
    \/ \E p \in Procs : Commit(p)
    \/ PassBegin
    \/ PassGet
    \/ PassFlush
    \/ PassFlushTimeout
    \/ PassCommit

SpecRace == InitRace /\ [][NextRace]_vars

-----------------------------------------------------------------------------
(* The operations of two players side by side: the saves of two processes  *)
(* and a planet pass, each for either player, step by step as above.  The  *)
(* passes of both players observe the same coordinates, and both players   *)
(* can submit the same battle simulator export.                            *)

\* the saves made for the two players: a scouting report of each (sr-2 at
\* a coordinate, from a moon; sr-3 without a coordinate) and the export
\* bs-1, which parse_battlesim_api saves for the player it is given
PlayersCalls(t) ==
    {SrArgs(k, FALSE) : k \in {"sr-2", "sr-3"}}
    \cup {BattleSimArgs("bs-1", player_id, t, FALSE) : player_id \in Players}

NextPlayers ==
    \/ \E p \in Procs : \E a \in PlayersCalls(now) : Check(p, a)
    \/ \E p \in Procs : GetPlayer(p)
    \/ \E p \in Procs : Compare(p)
    \/ \E p \in Procs : Merge(p)
    \/ \E p \in Procs : Flush(p)
    \/ \E p \in Procs : FlushTimeout(p)
    \/ \E p \in Procs : Commit(p)
    \/ PassBegin
    \/ PassGet
    \/ PassFlush
    \/ PassFlushTimeout
    \/ PassCommit

SpecPlayers == InitPlayers /\ [][NextPlayers]_vars

-----------------------------------------------------------------------------
(* Membership: members.link and members.unlink on table discord_users      *)
(* (discord_id primary key, ogame_id unique)                               *)

DiscordIds == {101, 102, 103, 104}

\* the names an administrator can type, and the player that players.xml
\* lists under each name (NoPlayer: no such player)
OgameNames == {"alice", "bob", "carol"}

PlayerNamed(ogame_name) ==
    CASE ogame_name = "alice" -> 1
      [] ogame_name = "bob" -> 2
      [] OTHER -> NoPlayer

\* ogame_api.get_player_id: the player of that name in table players; when
\* there is none the players are updated from players.xml and the name is
\* looked up once more
get_player_id(pl, ogame_name) ==
    LET ogame_id == PlayerNamed(ogame_name)
    IN  IF ogame_id \in pl
        THEN [ogame_id |-> ogame_id, players |-> pl]
        ELSE [ogame_id |-> IF ogame_id \in pl \cup Roster THEN ogame_id
                           ELSE NoPlayer,
              players |-> pl \cup Roster]

\* a player can be linked to any number of Discord users
link_ignores_player(rows, pl, discord_id, ogame_name) ==
    LET found == get_player_id(pl, ogame_name)
        row == <<discord_id, found.ogame_id>>
    IN  IF found.ogame_id = NoPlayer
        THEN [err |-> "player_not_found", links |-> rows,
              players |-> found.players]
        ELSE IF \E r \in rows : r[1] = discord_id
        THEN [err |-> "discord_already_linked", links |-> rows,
              players |-> found.players]
        ELSE [err |-> "ok", links |-> rows \cup {row},
              players |-> found.players]

\* members.link: the row is inserted unless SQLite reports a conflict; the
\* unique index on ogame_id is reported before the primary key
link(rows, pl, discord_id, ogame_name) ==
    LET found == get_player_id(pl, ogame_name)
        row == <<discord_id, found.ogame_id>>
    IN  IF found.ogame_id = NoPlayer
        THEN [err |-> "player_not_found", links |-> rows,
              players |-> found.players]
        ELSE IF \E r \in rows : r[2] = found.ogame_id
        THEN [err |-> "player_already_linked", links |-> rows,
              players |-> found.players]
        ELSE IF \E r \in rows : r[1] = discord_id
        THEN [err |-> "discord_already_linked", links |-> rows,
              players |-> found.players]
        ELSE [err |-> "ok", links |-> rows \cup {row},
              players |-> found.players]

\* members.unlink
unlink(rows, discord_id) ==
    IF \E r \in rows : r[1] = discord_id
    THEN [err |-> "ok", links |-> {r \in rows : r[1] # discord_id}]
    ELSE [err |-> "not_linked", links |-> rows]

\* table players holds the roster, or a second player as well
InitMembers ==
    /\ now = 0
    /\ players \in {Roster, Players}
    /\ reports = <<>>
    /\ planets = [key \in {} |-> 0]
    /\ last = Called("init", "ok", FALSE)
    /\ best = NoBest
    /\ sessions = [p \in Procs |-> NoSession]
    /\ shown = NoShown
    /\ pass = NoPass
    /\ trade = NoTrade
    /\ acs = NoChannels
    /\ links = {}

MembersFrame ==
    UNCHANGED <<now, reports, planets, best, sessions, shown, pass, trade,
                acs>>

Link(discord_id, ogame_name) ==
    LET out == link(links, players, discord_id, ogame_name)
    IN  /\ links' = out.links
        /\ players' = out.players
        /\ last' = Called("link", out.err, out.links # links)
        /\ MembersFrame

Unlink(discord_id) ==
    LET out == unlink(links, discord_id)
    IN  /\ links' = out.links
        /\ players' = players
        /\ last' = Called("unlink", out.err, out.links # links)
        /\ MembersFrame

NextMembers ==
    \/ \E discord_id \in DiscordIds, ogame_name \in OgameNames :
           Link(discord_id, ogame_name)
    \/ \E discord_id \in DiscordIds : Unlink(discord_id)

SpecMembers == InitMembers /\ [][NextMembers]_vars

-----------------------------------------------------------------------------
(* A trade: the buttons of one TradeView and its delivery modals           *)
(* (thoth_interactions/trade.py).  discord.py runs the callback of every   *)
(* interaction as a task of its own; a callback runs alone up to its next  *)
(* await.                                                                  *)

\* the users that can see the trade message; the first one posted it
Traders == {1, 2, 3}
Seller == 1

\* what users type into the delivery field
RawLocations == {"1:1:1", "2.2.2", "1:1:1 m", "somewhere"}

\* trade.normalize_location: "." becomes ":", a trailing moon marker becomes
\* " [Moon]", anything that is not x:y:z gives None
normalize_location(location) ==
    CASE location = "1:1:1" -> "1:1:1"
      [] location = "2.2.2" -> "2:2:2"
      [] location = "1:1:1 m" -> "1:1:1 [Moon]"
      [] OTHER -> NoLocation

\* members.discord_to_ogame_id: the player of the row of the user; the code
\* reads .ogame_id of None when the user has no row (NoPlayer here)
discord_to_ogame_id(rows, discord_id) ==
    IF \E r \in rows : r[1] = discord_id
    THEN (CHOOSE r \in rows : r[1] = discord_id)[2]
    ELSE NoPlayer

\* cargo.get_cargo_requirements_text for a party of the trade raises
\* AttributeError: the user has no row in discord_users (members.py:14), or
\* the linked player has no row in players (get_best_api_key reads
\* report_api_keys of None, cargo.py:26-28)
CargoFails(rows, pl, discord_id) ==
    \/ discord_to_ogame_id(rows, discord_id) = NoPlayer
    \/ discord_to_ogame_id(rows, discord_id) \notin pl

\* TradeView._make_embed: which of the three embeds is built; the embed of
\* a trade in progress holds the cargo requirements of every party that has
\* a user, and is not built when the lookup of one of them raises
_make_embed(view, rows, pl) ==
    IF view.cancelled THEN "cancelled"
    ELSE IF view.seller_sent /\ view.buyer_sent THEN "completed"
    ELSE IF \E user \in {view.seller_id, view.buyer_id} \ {NoUser} :
                CargoFails(rows, pl, user)
    THEN "AttributeError"
    ELSE "progress"

\* interaction.response.edit_message(embed=self._make_embed(), view=self):
\* the message is edited unless _make_embed raises
edit_message(view, rows, pl) ==
    IF _make_embed(view, rows, pl) = "AttributeError" THEN view
    ELSE [view EXCEPT !.embed = _make_embed(view, rows, pl)]

\* TradeView.__init__: TradeModal.on_submit has built the view and sent the
\* message with its first embed, so the seller had a row in discord_users;
\* the second user has one or not, the third has none
InitTrade ==
    /\ now = 0
    /\ players = Players
    /\ reports = <<>>
    /\ planets = [key \in {} |-> 0]
    /\ last = Called("init", "ok", FALSE)
    /\ best = NoBest
    /\ sessions = [p \in Procs |-> NoSession]
    /\ shown = NoShown
    /\ pass = NoPass
    /\ trade = TradeAt(Seller, NoUser, NoLocation, FALSE, FALSE, FALSE, FALSE,
                       FALSE, "progress", {}, FALSE)
    /\ acs = NoChannels
    /\ links \in {{<<Seller, 1>>}, {<<Seller, 1>>, <<2, 2>>}}

\* what an interaction leaves alone
TradeFrame ==
    UNCHANGED <<now, players, reports, planets, best, sessions, shown, pass,
                acs, links>>

\* how a handler that edits the message ends
Edited(view) ==
    IF _make_embed(view, links, players) = "AttributeError"
    THEN "AttributeError" ELSE "ok"

\* TradeView.accept, pressed by user: a DeliveryModal is opened for the user
accept(user) ==
    /\ ~trade.stopped
    /\ IF trade.buyer_id # NoUser \/ user = trade.seller_id
       THEN /\ trade' = trade
            /\ last' = Called("accept", "return", FALSE)
       ELSE /\ trade' = [trade EXCEPT !.modals = @ \cup {user}]
            /\ last' = Called("accept", "ok", FALSE)
    /\ TradeFrame

\* the submission takes the trade whether or not it has a buyer
on_submit_overwrites(view, buyer_id, location, rows, pl) ==
    IF normalize_location(location) = NoLocation
    THEN view
    ELSE edit_message([view EXCEPT
                          !.buyer_id = buyer_id,
                          !.buyer_location = normalize_location(location)],
                      rows, pl)

\* DeliveryModal.on_submit, lines 63-77: the view after the submission
on_submit(view, buyer_id, location, rows, pl) ==
    IF normalize_location(location) = NoLocation
    THEN view
    ELSE IF view.buyer_id # NoUser
    THEN view
    ELSE edit_message([view EXCEPT
                          !.buyer_id = buyer_id,
                          !.buyer_location = normalize_location(location)],
                      rows, pl)

\* a user submits the DeliveryModal that was opened for them; a modal is
\* submitted once
Submit(user, location) ==
    /\ user \in trade.modals
    /\ trade' = [on_submit(trade, user, location, links, players) EXCEPT
                    !.modals = @ \ {user}]
    /\ last' = Called("on_submit",
                      IF normalize_location(location) = NoLocation
                      THEN "invalid_location"
                      ELSE IF trade.buyer_id # NoUser THEN "return"
                      ELSE Edited(on_submit(trade, user, location, links,
                                            players)),
                      FALSE)
    /\ TradeFrame

\* TradeView.mark_sent, lines 124-143: the view after the press
mark_sent(view, user, rows, pl) ==
    IF view.buyer_id = NoUser THEN view
    ELSE IF user # view.seller_id /\ user # view.buyer_id THEN view
    ELSE LET marked ==
                 IF user = view.seller_id
                 THEN [view EXCEPT !.seller_sent = TRUE]
                 ELSE [view EXCEPT !.buyer_sent = TRUE]
             done == marked.seller_sent /\ marked.buyer_sent
         IN  edit_message([marked EXCEPT !.disabled = @ \/ done,
                                         !.stopped = @ \/ done],
                          rows, pl)

MarkSent(user) ==
    /\ ~trade.stopped
    /\ trade' = mark_sent(trade, user, links, players)
    /\ last' = Called("mark_sent",
                      IF trade.buyer_id = NoUser \/
                         user \notin {trade.seller_id, trade.buyer_id}
                      THEN "return"
                      ELSE Edited(mark_sent(trade, user, links, players)),
                      FALSE)
    /\ TradeFrame

\* TradeView.cancel, lines 153-159: up to the await of edit_message
Cancel(user) ==
    /\ ~trade.stopped
    /\ IF user # trade.seller_id \/ trade.buyer_id # NoUser
       THEN /\ trade' = trade
            /\ last' = Called("cancel", "return", FALSE)
       ELSE /\ trade' = [trade EXCEPT
                           !.cancelled = TRUE, !.disabled = TRUE,
                           !.embed = _make_embed([trade EXCEPT
                                                     !.cancelled = TRUE],
                                                 links, players),
                           !.cancelling = TRUE]
            /\ last' = Called("cancel", "ok", FALSE)
    /\ TradeFrame

\* TradeView.cancel, line 160: the message was edited, the view is stopped
CancelStop ==
    /\ trade.cancelling
    /\ trade' = [trade EXCEPT !.stopped = TRUE, !.cancelling = FALSE]
    /\ last' = Called("cancel", "stopped", FALSE)
    /\ TradeFrame

NextTrade ==
    \/ \E user \in Traders : accept(user)
    \/ \E user \in Traders, location \in RawLocations : Submit(user, location)
    \/ \E user \in Traders : MarkSent(user)
    \/ \E user \in Traders : Cancel(user)
    \/ CancelStop
    \/ \E user \in Traders : Unlink(user)

SpecTrade == InitTrade /\ [][NextTrade]_vars

-----------------------------------------------------------------------------
(* ACS channels: the create and delete commands of PrivateChannel          *)
(* (thoth.py, lines 40-137), each run as a task that suspends at its       *)
(* awaits                                                                  *)

MaxChannels == 3

\* the users that run the commands, and the command tasks that can be
\* running at a time
Owners == {1, 2}
Tasks == {1, 2}

\* no channel
NoChannel == 0

\* a command task: where it stands, who runs it, the channel it works on
TaskAt(pc, user, channel) == [pc |-> pc, user |-> user, channel |-> channel]

Idle == TaskAt("idle", NoUser, NoChannel)

\* self.active_channels.get(interaction.user.id)
active_channel(user) ==
    IF user \in DOMAIN acs.active_channels
    THEN acs.active_channels[user] ELSE NoChannel

\* PrivateChannel.__init__
InitChannels ==
    /\ now = 0
    /\ players = Roster
    /\ reports = <<>>
    /\ planets = [key \in {} |-> 0]
    /\ last = Called("init", "ok", FALSE)
    /\ best = NoBest
    /\ sessions = [p \in Procs |-> NoSession]
    /\ shown = NoShown
    /\ pass = NoPass
    /\ trade = NoTrade
    /\ acs = [active_channels |-> EmptyDict, guild |-> {}, created |-> 0,
              tasks |-> [t \in Tasks |-> Idle]]
    /\ links = {}

ChannelsFrame ==
    UNCHANGED <<now, players, reports, planets, best, sessions, shown, pass,
                trade, links>>

\* PrivateChannel.create, lines 65-70: the user is answered at once when
\* active_channels holds a channel for them; otherwise the task suspends at
\* the awaited creation of the channel
CreateBegin(task, user) ==
    /\ acs.tasks[task] = Idle
    /\ IF active_channel(user) # NoChannel
       THEN /\ acs' = acs
            /\ last' = Called("create", "already_have", FALSE)
       ELSE /\ acs' = [acs EXCEPT !.tasks[task] =
                          TaskAt("creating", user, NoChannel)]
            /\ last' = Called("create", "awaiting", FALSE)
    /\ ChannelsFrame

\* PrivateChannel.create, lines 70-97: the guild has created the channel,
\* the task records it under the user
CreateEnd(task) ==
    LET user == acs.tasks[task].user
        channel == acs.created + 1
    IN  /\ acs.tasks[task].pc = "creating"
        /\ acs.created < MaxChannels
        /\ acs' = [acs EXCEPT
                      !.guild = @ \cup {[id |-> channel, owner |-> user]},
                      !.created = channel,
                      !.active_channels = Put(@, user, channel),
                      !.tasks[task] = Idle]
        /\ last' = Called("create", "ok", TRUE)
        /\ ChannelsFrame

\* PrivateChannel.delete, lines 130-135: without a tracked channel the user
\* is told so; otherwise the task suspends at its messages to Discord
DeleteBegin(task, user) ==
    /\ acs.tasks[task] = Idle
    /\ IF active_channel(user) = NoChannel
       THEN /\ acs' = acs
            /\ last' = Called("delete", "no_active_channel", FALSE)
       ELSE /\ acs' = [acs EXCEPT !.tasks[task] =
                          TaskAt("deleting", user, active_channel(user))]
            /\ last' = Called("delete", "awaiting", FALSE)
    /\ ChannelsFrame

\* PrivateChannel.delete, lines 136-137: the channel is deleted and the
\* entry of the user is popped; deleting a channel that is gone raises
\* NotFound and the pop is not reached
DeleteEnd(task) ==
    LET user == acs.tasks[task].user
        channel == acs.tasks[task].channel
        exists == \E c \in acs.guild : c.id = channel
    IN  /\ acs.tasks[task].pc = "deleting"
        /\ acs' = [acs EXCEPT
                      !.guild = {c \in @ : c.id # channel},
                      !.active_channels =
                          IF exists
                          THEN [u \in DOMAIN @ \ {user} |-> @[u]]
                          ELSE @,
                      !.tasks[task] = Idle]
        /\ last' = Called("delete", IF exists THEN "ok" ELSE "NotFound",
                          exists)
        /\ ChannelsFrame

NextChannels ==
    \/ \E task \in Tasks, user \in Owners : CreateBegin(task, user)
    \/ \E task \in Tasks : CreateEnd(task)
    \/ \E task \in Tasks, user \in Owners : DeleteBegin(task, user)
    \/ \E task \in Tasks : DeleteEnd(task)

SpecChannels == InitChannels /\ [][NextChannels]_vars

-----------------------------------------------------------------------------
(* Properties of the store *)

\* the calls of reports.save_report_with_coords the adapters can make at t
SaveCalls(t) ==
    {SrArgs(k, f) : k \in SrTokens, f \in BOOLEAN}
    \cup {BattleSimArgs(k[1], k[2], t, f) :
              k \in BattleSimTokens \X Members, f \in BOOLEAN}

TokenStored(token) ==
    \E i \in 1..Len(reports) : reports[i].report_api_key = token

\* the military strength of a ships mapping
Strength(ships) == SumOver(ships, DOMAIN ships \ PEACEFUL_SHIPS)

\* less than the trust window has passed since the manual edit
Protected(planet, t) ==
    planet.manual_edit # NoTime /\ t - planet.manual_edit < TrustWindow

\* the step is a call that stores reports or reconciles planets
IsIngest(call) ==
    call.op \in {"save_report_with_coords", "ogame_api.save_report_with_coords"}

IsReconcile(call) == call.op = "sync_planets"

\* C1: a save whose report token is already stored ends with the duplicate
\* error and leaves the reports (with their line items and resources) and
\* the planets as they were, whatever its arguments.
C1_DuplicateRejected ==
    [][IsIngest(last') =>
          \A a \in SaveCalls(now) :
              (TokenStored(a.report_api_key_str)
                   /\ (Ingest(a) \/ OgameApiIngest(a)))
              => /\ last'.err \in {"duplicate_key", "DuplicateKeyException"}
                 /\ reports' = reports
                 /\ planets' = planets]_vars

C1_Witness ==
    /\ last.op = "save_report_with_coords"
    /\ last.err = "duplicate_key"
    /\ reports # <<>>

\* C2: a save without force of a fresh token, for a player who has a best
\* report, whose military strength is below that of the best report, ends
\* with fewer_ships and stores nothing.
C2_RegressionRejected ==
    [][IsIngest(last') =>
          \A a \in SaveCalls(now) :
              LET keys == report_api_keys(reports, a.player_id)
                  best_key == get_best_api_key(keys, now)
              IN  (/\ ~a.force
                   /\ ~TokenStored(a.report_api_key_str)
                   /\ best_key # NoKey
                   /\ Strength(a.ships) < Strength(keys[best_key].ships)
                   /\ Ingest(a))
                  => /\ last'.err = "fewer_ships"
                     /\ reports' = reports
                     /\ planets' = planets]_vars

\* the keys of a list that are battle simulator exports of the last seven
\* days, and those that are scouting reports
RecentBattleSims(keys, t) ==
    {i \in 1..Len(keys) :
        keys[i].source = "BattleSim" /\ t - keys[i].created_at <= TrustWindow}

Scouted(keys) == {i \in 1..Len(keys) : keys[i].source = "Ogame"}

\* C3: when a player has battle simulator exports of the last seven days,
\* the key chosen for the player is one of them, and none of them is newer,
\* whatever scouting reports the player has.
C3_RecentBattleSimWins ==
    best.by # "none" =>
        LET keys == report_api_keys(reports, best.player_id)
            recent == RecentBattleSims(keys, now)
        IN  recent # {} =>
                /\ best.key \in recent
                /\ \A j \in recent :
                      keys[j].created_at <= keys[best.key].created_at

C3_Witness ==
    LET keys == report_api_keys(reports, best.player_id)
        recent == RecentBattleSims(keys, now)
    IN  /\ best.by # "none"
        /\ best.key \in recent
        /\ \E j \in recent : keys[j].created_at < keys[best.key].created_at
        /\ \E j \in Scouted(keys) :
              Strength(keys[j].ships) > Strength(keys[best.key].ships)

\* C4: when a player has no battle simulator export of the last seven days
\* and has scouting reports, the key chosen is a scouting report that no
\* other scouting report exceeds in (military strength, creation time).
C4_StrongestScoutWins ==
    best.by # "none" =>
        LET keys == report_api_keys(reports, best.player_id)
            rank(i) == <<Strength(keys[i].ships), keys[i].created_at>>
        IN  (RecentBattleSims(keys, now) = {} /\ Scouted(keys) # {}) =>
                /\ best.key \in Scouted(keys)
                /\ \A j \in Scouted(keys) : ~LexLess(rank(best.key), rank(j))

\* C5: a planet pass that does not name a stored planet of the player leaves
\* that planet as it was when the planet was edited manually less than seven
\* days before.
C5_ProtectedUntouched ==
    [][IsReconcile(last') =>
          \A p \in Players : \A l \in PlanetLists(p) :
              \A key \in Absent(planets, p, l) :
                  (Protected(planets[key], now) /\ Sync(p, l)) =>
                      /\ key \in DOMAIN planets'
                      /\ planets'[key] = planets[key]]_vars

C5_Witness ==
    /\ last.op = "sync_planets"
    /\ last.err = "AttributeError"
    /\ DOMAIN planets # {}
    /\ \A key \in DOMAIN planets :
          Protected(planets[key], now) /\ ~planets[key].destroyed

\* C6: a planet pass that does not name a stored planet of the player whose
\* protection is unset or has run out leaves that planet stored with
\* destroyed = true.
C6_UnprotectedDestroyed ==
    [][IsReconcile(last') =>
          \A p \in Players : \A l \in PlanetLists(p) :
              \A key \in Absent(planets, p, l) :
                  (~Protected(planets[key], now) /\ Sync(p, l)) =>
                      /\ key \in DOMAIN planets'
                      /\ planets'[key].destroyed]_vars

\* C7: a planet pass removes no planet: every planet key stored before the
\* pass is stored after it.
C7_NeverDeleted ==
    [][IsReconcile(last') => DOMAIN planets \subseteq DOMAIN planets']_vars

C7_Witness ==
    /\ last.op = "sync_planets"
    /\ last.err = "AttributeError"
    /\ \E key \in DOMAIN planets : ~has_recent_manual_edit(planets[key], now)

\* C8: across planet passes and saves the moon flag of a planet only turns
\* on: a planet that has a moon keeps its row and its moon.
C8_MoonMonotonic ==
    [][(IsReconcile(last') \/ IsIngest(last')) =>
          \A key \in DOMAIN planets :
              planets[key].has_moon =>
                  /\ key \in DOMAIN planets'
                  /\ planets'[key].has_moon]_vars

C8_Witness ==
    /\ last.op = "sync_planets"
    /\ last.err = "ok"
    /\ \E key \in DOMAIN planets :
          planets[key].has_moon /\ planets[key].name = "Homeworld"

\* C9: a save or a planet pass that ends with an error leaves the reports
\* and the planets as they were before the call.
C9_AllOrNothing ==
    [][((IsReconcile(last') \/ IsIngest(last')) /\ last'.err # "ok") =>
          (reports' = reports /\ planets' = planets)]_vars

C9_Witness ==
    /\ last.op = "sync_planets"
    /\ last.err # "ok"
    /\ last.dirty

\* C10: when two processes have saved the same token, one save was accepted,
\* the other ended with duplicate_key, and the stored report is the one the
\* accepted save built.
C10_DuplicateAtomic ==
    \A p, q \in Procs :
        (/\ p # q
         /\ sessions[p].pc = "done"
         /\ sessions[q].pc = "done"
         /\ sessions[p].a.report_api_key_str = sessions[q].a.report_api_key_str)
        => \E w \in {p, q} : \E l \in {p, q} \ {w} :
              /\ sessions[w].err = "ok"
              /\ sessions[l].err = "duplicate_key"
              /\ \E i \in 1..Len(reports) :
                    reports[i] = NewReport(sessions[w].a,
                                           ShipItems(sessions[w].a.ships))

\* C11: when two processes save for a player without force, no save commits
\* a report whose military strength is below that of the best report the
\* player has in the store at that commit.
C11_RegressionAtomic ==
    [][\A p \in Procs :
          (/\ sessions[p].pc = "flushed"
           /\ sessions'[p].pc = "done"
           /\ \A q \in Procs : ~sessions[q].a.force)
          => LET a == sessions[p].a
                 keys == report_api_keys(reports, a.player_id)
                 best_key == get_best_api_key(keys, now)
             IN  best_key # NoKey =>
                     Strength(a.ships) >= Strength(keys[best_key].ships)]_vars

SameRank(keys, i, j) ==
    \/ i = j
    \/ /\ i # NoKey /\ j # NoKey
       /\ keys[i].source = keys[j].source
       /\ keys[i].created_at = keys[j].created_at
       /\ keys[i].source = "Ogame" =>
              Strength(keys[i].ships) = Strength(keys[j].ships)

C17_NoPeacefulNoZero ==
    \A i \in 1..Len(reports) :
        \A stype \in DOMAIN reports[i].ships :
            /\ stype \notin PEACEFUL_SHIPS
            /\ reports[i].ships[stype] # 0

\* C18: an accepted save that gives a coordinate at which the player has no
\* stored planet adds exactly one planet, at (player, coordinate), with
\* manual_edit = created_at and has_moon = from_moon, and leaves every other
\* planet as it was; the new planet has a recent manual edit at every instant
\* of the 7 days that follow created_at.
C18_PlanetCreated ==
    [][(IsIngest(last') /\ last'.err = "ok") =>
          \A a \in SaveCalls(now) :
              (/\ Truthy(a.coord_str)
               /\ set_coords_ok(a.coord_str)
               /\ PlanetKey(a.player_id, set_coords(a.coord_str))
                      \notin DOMAIN planets
               /\ (Ingest(a) \/ OgameApiIngest(a)))
              => LET key == PlanetKey(a.player_id, set_coords(a.coord_str))
                 IN  /\ DOMAIN planets' = DOMAIN planets \cup {key}
                     /\ \A k \in DOMAIN planets : planets'[k] = planets[k]
                     /\ planets'[key].manual_edit = a.created_at
                     /\ planets'[key].has_moon = a.from_moon
                     /\ ~planets'[key].destroyed
                     /\ \A t \in Instants :
                           (t >= a.created_at
                               /\ t - a.created_at < TrustWindow)
                           => /\ has_recent_manual_edit(planets'[key], t)
                              /\ Protected(planets'[key], t)]_vars

\* a save of a report from a moon has just created the planet of the report
C18_Witness ==
    /\ IsIngest(last)
    /\ last.err = "ok"
    /\ Len(reports) = 1
    /\ reports[1].from_moon
    /\ LET key == PlanetKey(reports[1].ogame_id, reports[1].coords)
       IN  /\ DOMAIN planets = {key}
           /\ planets[key].manual_edit = reports[1].created_at
           /\ planets[key].has_moon
           /\ Protected(planets[key], now)

\* C19: a save of a fresh token that is forced, or whose military strength
\* is not below that of the best report of the player, or for a player
\* without a best report, does not end with fewer_ships: it is accepted and
\* the report is stored.
C19_AcceptedWhenNotRegression ==
    [][IsIngest(last') =>
          \A a \in SaveCalls(now) :
              LET keys == report_api_keys(reports, a.player_id)
                  best_key == get_best_api_key(keys, now)
              IN  (/\ ~TokenStored(a.report_api_key_str)
                   /\ \/ a.force
                      \/ best_key = NoKey
                      \/ Strength(a.ships) >= Strength(keys[best_key].ships)
                   /\ Ingest(a))
                  => /\ last'.err # "fewer_ships"
                     /\ last'.err = "ok"
                     /\ Len(reports') = Len(reports) + 1
                     /\ reports'[Len(reports')].report_api_key
                            = a.report_api_key_str]_vars

\* C20: a planet pass that names a stored planet of the player leaves the
\* planet with destroyed = false when its protection is unset or has run
\* out, and with destroyed as it was when the protection is active.
C20_DestroyedCleared ==
    [][IsReconcile(last') =>
          \A p \in Players : \A l \in PlanetLists(p) :
              \A key \in PlanetKeysOf(planets, p) \ Absent(planets, p, l) :
                  Sync(p, l) =>
                      /\ key \in DOMAIN planets'
                      /\ planets'[key].destroyed =
                             IF Protected(planets[key], now)
                             THEN planets[key].destroyed ELSE FALSE]_vars

\* a pass that ended normally has named two planets that were stored before
\* it (they hold a manual edit, which only a save writes, and the name the
\* pass gave them): the protection of one has run out, that of the other
\* is active, and neither is marked destroyed
C20_Witness ==
    /\ last.op = "sync_planets"
    /\ last.err = "ok"
    /\ \E k1, k2 \in DOMAIN planets :
          /\ planets[k1].name = "Homeworld"
          /\ planets[k1].manual_edit # NoTime
          /\ ~has_recent_manual_edit(planets[k1], now)
          /\ ~planets[k1].destroyed
          /\ planets[k2].name = "Homeworld"
          /\ Protected(planets[k2], now)
          /\ ~planets[k2].destroyed

\* C21: a planet pass that names a stored planet of the player without a
\* name leaves the stored name of the planet as it was.
C21_NameKept ==
    [][IsReconcile(last') =>
          \A p \in Players : \A l \in PlanetLists(p) :
              \A i \in DOMAIN l :
                  (/\ set_coords_ok(l[i].coords)
                   /\ PlanetKey(p, set_coords(l[i].coords)) \in DOMAIN planets
                   /\ l[i].name = NoName
                   /\ Sync(p, l))
                  => LET key == PlanetKey(p, set_coords(l[i].coords))
                     IN  /\ key \in DOMAIN planets'
                         /\ planets'[key].name = planets[key].name]_vars

\* C22: a planet pass never moves the manual_edit of a stored planet
\* backwards and never clears it; a pass fed by playerData.xml alone, as
\* every pass of sync_planets is, leaves it unchanged.
C22_ManualEditKept ==
    [][IsReconcile(last') =>
          \A key \in DOMAIN planets :
              /\ key \in DOMAIN planets'
              /\ planets'[key].manual_edit >= planets[key].manual_edit
              /\ planets[key].manual_edit # NoTime
                     => planets'[key].manual_edit # NoTime
              /\ planets'[key].manual_edit = planets[key].manual_edit]_vars

\* a pass has ended without an error and has renamed a planet that holds a
\* manual edit
C22_Witness ==
    /\ last.op = "sync_planets"
    /\ last.err = "ok"
    /\ \E key \in DOMAIN planets :
          /\ planets[key].manual_edit # NoTime
          /\ planets[key].name = "Homeworld"

\* the entry of a well-formed coordinate in a planet list, and in the
\* galaxy_array of PTRE; the empty set when the feed does not name it
PrimaryAt(planets_in, coords) ==
    {planets_in[i] : i \in {j \in DOMAIN planets_in :
        /\ set_coords_ok(planets_in[j].coords)
        /\ set_coords(planets_in[j].coords) = coords}}

SecondaryAt(player_id, coords) ==
    {s \in get_planet_infos(player_id) : s.coords = coords}

\* the planet the precedence table of the reconciler gives a coordinate that
\* the store does not know
Precedence(primary, secondary) ==
    [name |-> IF primary # {} THEN (CHOOSE o \in primary : TRUE).name
              ELSE NoName,
     has_moon |-> \/ \E o \in primary : o.moon
                  \/ \E s \in secondary : s.moon,
     destroyed |-> FALSE,
     manual_edit |-> IF secondary # {}
                     THEN (CHOOSE s \in secondary : TRUE).timestamp
                     ELSE NoTime]

\* C23: a planet pass inserts, for every coordinate that playerData.xml or
\* PTRE names and the store does not know, one planet with destroyed = false
\* and the moon flag, name and manual_edit of the precedence table.
C23_InsertedByPrecedence ==
    [][IsReconcile(last') =>
          \A p \in Players : \A l \in PlanetLists(p) :
              Sync(p, l) =>
                  \A coords \in Named(l) \cup
                                {s.coords : s \in get_planet_infos(p)} :
                      PlanetKey(p, coords) \notin DOMAIN planets =>
                          /\ PlanetKey(p, coords) \in DOMAIN planets'
                          /\ planets'[PlanetKey(p, coords)] =
                                 Precedence(PrimaryAt(l, coords),
                                            SecondaryAt(p, coords))]_vars

\* C24: a stored planet has a recent manual edit exactly when its
\* manual_edit is set and less than 7 days have passed since; a planet
\* without a manual_edit has none.
C24_ProtectedStrict ==
    \A key \in DOMAIN planets :
        /\ has_recent_manual_edit(planets[key], now)
               <=> (/\ planets[key].manual_edit # NoTime
                    /\ now - planets[key].manual_edit < TrustWindow)
        /\ planets[key].manual_edit = NoTime
               => ~has_recent_manual_edit(planets[key], now)

\* C25: no step changes a stored report: a report whose token stays stored
\* keeps its player, creation time, source, coordinate, from_moon flag,
\* resources, ships and techs, and only delete_key removes a stored report.
C25_ReportsImmutable ==
    [][\A i \in 1..Len(reports) :
          /\ \A j \in 1..Len(reports') :
                reports'[j].report_api_key = reports[i].report_api_key
                    => reports'[j] = reports[i]
          /\ last'.op # "delete_key"
                => \E j \in 1..Len(reports') :
                       reports'[j].report_api_key
                           = reports[i].report_api_key]_vars

\* C26: a save or a planet pass that found no planet at a coordinate and
\* ends without an error writes its planet while the table still holds none
\* at that coordinate, and the table then holds the planet as the call built
\* it: no second record, and no write that is lost without an error.
C26_OnePlanetPerCoordinate ==
    [][/\ (pass.pc = "flushed" /\ pass'.pc = "done" /\ pass'.err = "ok") =>
            \A key \in PassNew :
                /\ key \notin DOMAIN planets
                /\ key \in DOMAIN planets'
                /\ planets'[key] = pass.rows[key]
       /\ \A p \in Procs :
            (/\ sessions[p].pc = "flushed" /\ sessions'[p].pc = "done"
             /\ sessions'[p].err = "ok"
             /\ Truthy(sessions[p].a.coord_str))
            => LET a == sessions[p].a
                   key == PlanetKey(a.player_id, set_coords(a.coord_str))
               IN  /\ key \in DOMAIN planets'
                   /\ key \notin DOMAIN planets =>
                          /\ planets'[key].manual_edit = a.created_at
                          /\ planets'[key].has_moon = a.from_moon]_vars

\* a pass and a save both found no planet at the coordinate; the save has
\* stored its planet and the pass has ended with the error of the insert
C26_Witness ==
    /\ pass.pc = "done"
    /\ pass.err = "IntegrityError"
    /\ \E p \in Procs :
          /\ sessions[p].pc = "done"
          /\ sessions[p].err = "ok"
          /\ Truthy(sessions[p].a.coord_str)
          /\ LET a == sessions[p].a
                 key == PlanetKey(a.player_id, set_coords(a.coord_str))
             IN  /\ key \in PassNew
                 /\ key \in DOMAIN planets
                 /\ planets[key].manual_edit = a.created_at

\* the step leaves the planets and the reports of every player other than
\* p, and the best key of each of them, as they were
Untouched(p) ==
    \A q \in Players \ {p} :
        /\ PlanetKeysOf(planets', q) = PlanetKeysOf(planets, q)
        /\ \A key \in PlanetKeysOf(planets, q) : planets'[key] = planets[key]
        /\ report_api_keys(reports', q) = report_api_keys(reports, q)
        /\ get_best_api_key(report_api_keys(reports', q), now')
               = get_best_api_key(report_api_keys(reports, q), now)
        /\ ogame_api_get_best_api_key(report_api_keys(reports', q), now')
               = ogame_api_get_best_api_key(report_api_keys(reports, q), now)

\* C27: every step of a save or of a planet pass for a player, however the
\* steps of the two players' operations interleave, leaves the planets, the
\* reports and the best key of every other player as they were.
C27_PlayersIndependent ==
    [][/\ \A p \in Procs :
            sessions'[p] # sessions[p]
                => Untouched(sessions'[p].a.player_id)
       /\ pass' # pass => Untouched(pass'.player_id)]_vars

\* C28: get_best_api_key returns None exactly when the player has no
\* scouting report and no battle simulator export of the last seven days;
\* when the reports of a player are all battle simulator exports older than
\* that, no save for the player meets the fewer_ships test.
C28_NoneWhenNothingCounts ==
    LET keys == report_api_keys(reports, best.player_id)
    IN  /\ best.by # "none" =>
              (best.key = NoKey
                   <=> (RecentBattleSims(keys, now) = {} /\ Scouted(keys) = {}))
        /\ (/\ best.by = "reports"
            /\ keys # <<>>
            /\ RecentBattleSims(keys, now) = {}
            /\ Scouted(keys) = {})
           => \A a \in SaveCalls(now) :
                  a.player_id = best.player_id
                      => ~FewerShips(reports, players, now, a)

\* get_best_api_key has returned None for a player whose reports are battle
\* simulator exports older than seven days, one of them stronger than a
\* report that can be saved for the player
C28_Witness ==
    LET keys == report_api_keys(reports, best.player_id)
    IN  /\ best.by = "reports"
        /\ best.key = NoKey
        /\ Len(keys) >= 2
        /\ \A i \in 1..Len(keys) :
              keys[i].source = "BattleSim" /\ now - keys[i].created_at > TrustWindow
        /\ \E i \in 1..Len(keys) : \E a \in SaveCalls(now) :
              /\ a.player_id = best.player_id
              /\ ~a.force
              /\ Strength(a.ships) < Strength(keys[i].ships)

\* C29: a save without force that is accepted for a player who had a best
\* report leaves the player with a best report whose military strength is
\* not below that of the best report before the save.
C29_BestNeverWeaker ==
    [][(IsIngest(last') /\ last'.err = "ok") =>
          \A a \in SaveCalls(now) :
              LET keys == report_api_keys(reports, a.player_id)
                  best_key == get_best_api_key(keys, now)
                  keys_after == report_api_keys(reports', a.player_id)
                  best_after == get_best_api_key(keys_after, now')
              IN  (/\ ~a.force
                   /\ best_key # NoKey
                   /\ Ingest(a))
                  => /\ best_after # NoKey
                     /\ Strength(keys_after[best_after].ships)
                            >= Strength(keys[best_key].ships)]_vars

\* a save has been accepted for a player who had a best report, and the
\* report it stored is the stronger one and now the best of the player
C29_Witness ==
    /\ last.op = "save_report_with_coords"
    /\ last.err = "ok"
    /\ Len(reports) = 2
    /\ reports[1].ogame_id = reports[2].ogame_id
    /\ reports[1].ogame_id \in players
    /\ Strength(reports[2].ships) > Strength(reports[1].ships)
    /\ get_best_api_key(report_api_keys(reports, reports[1].ogame_id), now) = 2
    /\ get_best_api_key(<<reports[1]>>, now) = 1

\* C30: an accepted save at the coordinate of a stored planet of the player
\* changes nothing in table planets but the has_moon flag of that planet,
\* which it sets when the report is from a moon and never clears: name,
\* destroyed and manual_edit stay; an accepted save without a coordinate
\* leaves table planets as it was.
C30_LinkOnlySetsMoon ==
    [][(IsIngest(last') /\ last'.err = "ok") =>
          \A a \in SaveCalls(now) :
              (Ingest(a) \/ OgameApiIngest(a)) =>
                  IF ~Truthy(a.coord_str) THEN planets' = planets
                  ELSE LET key == PlanetKey(a.player_id,
                                            set_coords(a.coord_str))
                       IN  key \in DOMAIN planets =>
                               /\ DOMAIN planets' = DOMAIN planets
                               /\ \A k \in DOMAIN planets \ {key} :
                                     planets'[k] = planets[k]
                               /\ planets'[key] =
                                     [planets[key] EXCEPT
                                         !.has_moon = planets[key].has_moon
                                                        \/ a.from_moon]]_vars

\* a report from a moon has been saved at a stored planet whose manual edit
\* is older than the report: the planet has its moon and is otherwise as
\* it was
C30_Witness ==
    /\ last.op = "save_report_with_coords"
    /\ last.err = "ok"
    /\ Len(reports) = 1
    /\ reports[1].from_moon
    /\ LET key == PlanetKey(reports[1].ogame_id, reports[1].coords)
       IN  /\ key \in DOMAIN planets
           /\ planets[key].has_moon
           /\ ~planets[key].destroyed
           /\ planets[key].manual_edit # NoTime
           /\ planets[key].manual_edit < reports[1].created_at

\* the ship and tech line items of the stored reports, each with the token
\* of the report it belongs to
LineItems(rs) ==
    UNION {{<<rs[i].report_api_key, "ship", k, rs[i].ships[k]>> :
                k \in DOMAIN rs[i].ships}
           \cup {<<rs[i].report_api_key, "tech", k, rs[i].techs[k]>> :
                k \in DOMAIN rs[i].techs} : i \in 1..Len(rs)}

IsDelete(call) == call.op = "delete_key"

\* C31: delete_key of a token that is not stored ends with not_found and
\* leaves reports and planets as they were; delete_key of a stored token
\* ends normally, the report of that token is gone with all of its ship and
\* tech line items, and every other report and line item is kept.
C31_DeleteRemovesReport ==
    [][IsDelete(last') =>
          \A key \in Tokens, delete_planet \in BOOLEAN :
              Delete(key, delete_planet) =>
                  IF ~TokenStored(key)
                  THEN /\ last'.err = "not_found"
                       /\ reports' = reports
                       /\ planets' = planets
                  ELSE /\ last'.err = "ok"
                       /\ reports' = SelectSeq(reports,
                              LAMBDA r : r.report_api_key # key)
                       /\ Len(reports') = Len(reports) - 1
                       /\ LineItems(reports') =
                              {item \in LineItems(reports) : item[1] # key}]_vars

\* a key was deleted while another key with line items stays stored
C31_Witness ==
    /\ last.op = "delete_key"
    /\ last.err = "ok"
    /\ LineItems(reports) # {}

\* the planet that delete_key(key, delete_planet) removes from the tables as
\* they are: the one at the player and coordinate of the report of the
\* token, when the report has a coordinate and the planet was edited by hand
\* within the trust window; <<>> when there is none
PlanetToRemove(key, delete_planet) ==
    LET i == IndexOfToken(reports, key)
        planet_key == PlanetKey(reports[i].ogame_id, reports[i].coords)
    IN  IF /\ delete_planet
           /\ i # 0
           /\ reports[i].coords # NoCoords
           /\ planet_key \in DOMAIN planets
           /\ planets[planet_key].manual_edit # NoTime
           /\ now - planets[planet_key].manual_edit <= TrustWindow
        THEN planet_key
        ELSE <<>>

\* C32: delete_key without delete_planet leaves every planet as it was; with
\* delete_planet it removes exactly the planet at the player and coordinate
\* of the deleted report, and returns its coordinate string, when the report
\* has a coordinate and that planet was edited by hand within the last 7
\* days; in every other case all planets are left as they were and nothing
\* is returned.
C32_DeletePlanetOnlyWhenEdited ==
    [][IsDelete(last') =>
          \A key \in Tokens, delete_planet \in BOOLEAN :
              Delete(key, delete_planet) =>
                  LET planet_key == PlanetToRemove(key, delete_planet)
                  IN  IF planet_key = <<>>
                      THEN /\ planets' = planets
                           /\ last'.ret = NoneStr
                      ELSE /\ delete_planet
                           /\ planet_key \notin DOMAIN planets'
                           /\ \A k \in DOMAIN planets \ {planet_key} :
                                  k \in DOMAIN planets' /\ planets'[k] = planets[k]
                           /\ DOMAIN planets' \subseteq DOMAIN planets
                           /\ last'.ret = <<str(planet_key[2]), str(planet_key[3]),
                                            str(planet_key[4])>>]_vars

\* a key was deleted together with its planet while a planet stays stored
C32_Witness ==
    /\ last.op = "delete_key"
    /\ last.err = "ok"
    /\ last.ret # NoneStr
    /\ DOMAIN planets # {}

\* C33: a planet pass for a player, run again at once with the same planet
\* list and at the same instant, leaves reports and planets exactly as the
\* first run left them.
C33_ReconcileIdempotent ==
    [][IsReconcile(last') =>
          \A player_id \in players :
              \A planets_in \in PlanetLists(player_id) :
                  Sync(player_id, planets_in) =>
                      LET again == sync_planets(reports', planets', now',
                                                player_id, planets_in)
                      IN  /\ again.planets = planets'
                          /\ again.reports = reports'
                          /\ again.err = last'.err]_vars

\* a pass ended normally and changed a stored planet
C33_Witness ==
    /\ last.op = "sync_planets"
    /\ last.err = "ok"
    /\ last.dirty
    /\ \E key \in DOMAIN planets : planets[key].has_moon

\* the parts of an export that have the given key
PartsWith(token, key_str) ==
    {i \in DOMAIN split(token) :
        Len(split(token)[i]) = 2 /\ split(token)[i][1] = key_str}

\* the value that the export gives to a key it holds: that of the last part
\* with the key
ValueOf(token, key_str) ==
    LET i == CHOOSE i \in PartsWith(token, key_str) :
                 \A j \in PartsWith(token, key_str) : j <= i
    IN  split(token)[i][2]

\* the numeric keys of an export
NumericKeys(token) ==
    {key_str \in {"1", "2", "109", "199", "200", "202", "204"} :
        PartsWith(token, key_str) # {}}

\* the mapping an export gives for some of its numeric keys
LineItemsOf(token, keys) ==
    [id \in {int(k) : k \in keys} |->
        int(ValueOf(token, CHOOSE k \in keys : int(k) = id))]

\* the technologies and the ships of an export
TechsOf(token) ==
    LineItemsOf(token, {k \in NumericKeys(token) : int(k) < 200})

ShipsOf(token) ==
    LineItemsOf(token, {k \in NumericKeys(token) : int(k) >= 200})

\* every part of the export is empty or a key;value pair, and the value of
\* every numeric key is an integer
WellFormed(token) ==
    \A i \in DOMAIN split(token) :
        LET part == split(token)[i]
        IN  \/ part = <<>>
            \/ /\ Len(part) = 2
               /\ part[1] \in NumericKeys(token) => part[2] \in Digits

\* the report that an export stands for: source BattleSim, not from a moon,
\* the numeric keys below 200 as technologies and those from 200 on as
\* ships, the coordinate of the key coords, nothing for any other key
Submitted(key, player_id, force) ==
    [report_api_key_str |-> key, player_id |-> player_id,
     ships |-> ShipsOf(key), techs |-> TechsOf(key), source |-> "BattleSim",
     created_at |-> now,
     coord_str |-> IF PartsWith(key, "coords") = {} THEN NoneStr
                   ELSE ValueOf(key, "coords"),
     from_moon |-> FALSE, resources |-> EmptyDict, force |-> force]

\* C34: add_key hands a token that starts with sr- to the scouting adapter
\* and refuses any other token that comes without a player with
\* missing_player_id, storing nothing; a battle simulator export is
\* submitted to the save with source BattleSim and from_moon false, with
\* exactly its numeric keys below 200 as technologies and exactly its
\* numeric keys from 200 on as ships, each with its value, with the
\* coordinate of the key coords (none without that key), and with nothing
\* for a key that is not numeric.
C34_BattleSimAdapter ==
    [][\A key \in SrTokens \cup ExportTokens,
          player_id \in Members \cup {NoPlayer}, force \in BOOLEAN :
          AddKey(key, player_id, force) =>
              IF key \in SrTokens
              THEN /\ last'.op = "save_report_with_coords"
                   /\ last'.err = "ok" =>
                          LET r == reports'[IndexOfToken(reports', key)]
                          IN  /\ r.source = "Ogame"
                              /\ r.ogame_id = ScoutingFeed(key).player_id
              ELSE IF player_id = NoPlayer
              THEN /\ last'.err = "missing_player_id"
                   /\ reports' = reports
                   /\ planets' = planets
              ELSE IF WellFormed(key)
              THEN Ingest(Submitted(key, player_id, force))
              ELSE /\ last'.err = "ValueError"
                   /\ reports' = reports
                   /\ planets' = planets]_vars

\* an export with the keys coords, 199 and 200 is stored
C34_Witness ==
    /\ last.op = "save_report_with_coords"
    /\ last.err = "ok"
    /\ TokenStored("bs-2")

\* C35: once a trade has a buyer, no step changes the buyer or the delivery
\* location of the buyer, also when several users opened the delivery modal
\* before any of them submitted it (the first submission wins); and the
\* buyer is never the seller.
C35_BuyerAssignedOnce ==
    [][/\ trade.buyer_id # NoUser =>
              /\ trade'.buyer_id = trade.buyer_id
              /\ trade'.buyer_location = trade.buyer_location
       /\ trade'.buyer_id # trade'.seller_id
       /\ trade'.seller_id = trade.seller_id]_vars

\* a second user submitted a delivery modal after the trade had got its
\* buyer
C35_Witness ==
    /\ last.op = "on_submit"
    /\ last.err = "return"
    /\ trade.buyer_id # NoUser
    /\ trade.buyer_location # NoLocation

\* C36: a trade is cancelled only by its seller and only while it has no
\* buyer, and a cancelled trade has no buyer and no sent mark in any state,
\* also when a delivery modal that was opened before the cancellation is
\* submitted after it.
C36_CancelledIsTerminal ==
    [][/\ (trade'.cancelled /\ ~trade.cancelled) =>
              /\ trade.buyer_id = NoUser
              /\ \A user \in Traders : Cancel(user) => user = trade.seller_id
       /\ trade'.cancelled =>
              /\ trade'.buyer_id = NoUser
              /\ ~trade'.seller_sent
              /\ ~trade'.buyer_sent
       /\ trade.cancelled => trade'.cancelled]_vars

\* the trade is shown as completed: buttons disabled, view stopped, the
\* Trade Completed embed on the message
Completed(view) ==
    view.disabled /\ view.stopped /\ view.embed = "completed"

\* the fields of the TradeView itself
TradeState(view) ==
    <<view.seller_id, view.buyer_id, view.buyer_location, view.seller_sent,
      view.buyer_sent, view.cancelled, view.disabled, view.stopped,
      view.embed>>

\* C37: a sent flag is set only by Mark as Sent, only once the trade has a
\* buyer, and only by the seller (seller_sent alone) or by the buyer
\* (buyer_sent alone); a sent flag that is set stays set; the trade is
\* completed (buttons disabled, view stopped, Trade Completed shown) exactly
\* when both flags are set; and once it is completed no interaction changes
\* the trade.
C37_SentAndCompleted ==
    [][/\ (trade'.seller_sent # trade.seller_sent
           \/ trade'.buyer_sent # trade.buyer_sent) =>
              /\ trade.buyer_id # NoUser
              /\ last'.op = "mark_sent"
              /\ \A user \in Traders :
                     MarkSent(user) =>
                         \/ /\ user = trade.seller_id
                            /\ trade'.buyer_sent = trade.buyer_sent
                         \/ /\ user = trade.buyer_id
                            /\ trade'.seller_sent = trade.seller_sent
       /\ trade.seller_sent => trade'.seller_sent
       /\ trade.buyer_sent => trade'.buyer_sent
       /\ Completed(trade') <=> (trade'.seller_sent /\ trade'.buyer_sent)
       /\ Completed(trade) => TradeState(trade') = TradeState(trade)]_vars

\* C38: every user has at most one ACS channel, and every ACS channel of
\* the guild is the one that active_channels tracks for its owner, whatever
\* the interleaving of the create and delete commands; a create by a user
\* with a tracked channel creates nothing, and a completed delete leaves the
\* user without a tracked channel.
C38_OneChannelPerUser ==
    [][/\ \A user \in Owners :
              /\ Cardinality({c \in acs'.guild : c.owner = user}) <= 1
              /\ \A c \in acs'.guild :
                     c.owner = user =>
                         /\ user \in DOMAIN acs'.active_channels
                         /\ acs'.active_channels[user] = c.id
       /\ \A task \in Tasks, user \in Owners :
              (CreateBegin(task, user) /\ active_channel(user) # NoChannel) =>
                  acs' = acs
       /\ \A task \in Tasks :
              (DeleteEnd(task) /\ last'.err = "ok") =>
                  acs.tasks[task].user \notin DOMAIN acs'.active_channels]_vars

\* the Discord users linked to a player, and the players linked to a
\* Discord user
LinkedTo(rows, ogame_id) == {r[1] : r \in {x \in rows : x[2] = ogame_id}}

LinkedOf(rows, discord_id) == {r[2] : r \in {x \in rows : x[1] = discord_id}}

\* C39: after every link and unlink each Discord id is linked to at most
\* one player and each player to at most one Discord id; a link to an
\* unknown player ends with player_not_found, a link of a linked Discord id
\* or to a linked player ends with discord_already_linked or
\* player_already_linked, any other link adds its row; an unlink of an
\* unlinked id ends with not_linked, any other unlink removes the row; and
\* a call that fails leaves the links as they were.
C39_LinksOneToOne ==
    [][/\ \A discord_id \in DiscordIds :
              Cardinality(LinkedOf(links', discord_id)) <= 1
       /\ \A ogame_id \in Players :
              Cardinality(LinkedTo(links', ogame_id)) <= 1
       /\ last'.err # "ok" => links' = links
       /\ \A discord_id \in DiscordIds, ogame_name \in OgameNames :
              Link(discord_id, ogame_name) =>
                  LET ogame_id == PlayerNamed(ogame_name)
                  IN  IF ogame_id \notin players \cup Roster
                      THEN last'.err = "player_not_found"
                      ELSE IF /\ LinkedOf(links, discord_id) = {}
                              /\ LinkedTo(links, ogame_id) = {}
                      THEN /\ last'.err = "ok"
                           /\ links' = links \cup {<<discord_id, ogame_id>>}
                      ELSE /\ last'.err \in {"discord_already_linked",
                                             "player_already_linked"}
                           /\ last'.err = "discord_already_linked" =>
                                  LinkedOf(links, discord_id) # {}
                           /\ last'.err = "player_already_linked" =>
                                  LinkedTo(links, ogame_id) # {}
       /\ \A discord_id \in DiscordIds :
              Unlink(discord_id) =>
                  IF LinkedOf(links, discord_id) = {}
                  THEN last'.err = "not_linked"
                  ELSE /\ last'.err = "ok"
                       /\ LinkedOf(links', discord_id) = {}
                       /\ \A r \in links : r[1] # discord_id => r \in links']_vars

\* two Discord users are linked and a link to a linked player was refused
C39_Witness ==
    /\ last.op = "link"
    /\ last.err = "player_already_linked"
    /\ Cardinality(links) = 2

-----------------------------------------------------------------------------
(* Properties of the deltas *)

\* the stored report of a token
ReportOf(token) ==
    reports[CHOOSE i \in 1..Len(reports) : reports[i].report_api_key = token]

\* the selection rule of the old report: same player, scouted, same planet,
\* same moon flag, created earlier
Qualifies(old, new) ==
    /\ old.ogame_id = new.ogame_id
    /\ old.source = "Ogame"
    /\ old.coords = new.coords
    /\ old.from_moon = new.from_moon
    /\ old.created_at < new.created_at

\* a category of a report as a mapping, and the value of a key in it
Category(report, cat) ==
    CASE cat = "ships" -> report.ships
      [] cat = "techs" -> report.techs
      [] cat = "resources" -> IF report.resources = NoResources THEN EmptyDict
                              ELSE report.resources

ValueIn(report, cat, k) ==
    IF k \in DOMAIN Category(report, cat) THEN Category(report, cat)[k] ELSE 0

Categories == {"resources", "ships", "techs"}

NothingShown ==
    /\ shown.last_report = NoToken
    /\ \A cat \in Categories : DOMAIN shown.deltas[cat] = {}

\* C13: a ReportWithDelta built without deltas asked for, or for a report
\* that no stored report qualifies as the old report of, has three empty
\* delta mappings and no last report.
C13_NoOldNoDeltas ==
    shown.report_api_key # NoToken =>
        LET new == ReportOf(shown.report_api_key)
        IN  (\/ ~shown.compute_delta
             \/ \A j \in 1..Len(reports) : ~Qualifies(reports[j], new))
            => NothingShown

\* C14: with an old report to compare with, each delta mapping has the keys
\* of the new and of the old report, and maps a key to its new value less its
\* old value, a missing key counting as 0.
C14_DeltaIsDifference ==
    (shown.last_report # NoToken /\ shown.compute_delta) =>
        LET new == ReportOf(shown.report_api_key)
            old == ReportOf(shown.last_report)
        IN  \A cat \in Categories :
                /\ DOMAIN shown.deltas[cat] =
                       DOMAIN Category(new, cat) \cup DOMAIN Category(old, cat)
                /\ \A k \in DOMAIN shown.deltas[cat] :
                       shown.deltas[cat][k] =
                           ValueIn(new, cat, k) - ValueIn(old, cat, k)

C14_Witness ==
    /\ shown.last_report # NoToken
    /\ LET new == ReportOf(shown.report_api_key)
           old == ReportOf(shown.last_report)
       IN  /\ \E k \in DOMAIN old.ships \ DOMAIN new.ships :
                 shown.deltas["ships"][k] = 0 - old.ships[k]
           /\ \E k \in DOMAIN new.ships \ DOMAIN old.ships :
                 shown.deltas["ships"][k] = new.ships[k]
           /\ \E k \in DOMAIN new.techs \cap DOMAIN old.techs :
                 shown.deltas["techs"][k] # 0
           /\ DOMAIN shown.deltas["resources"] # {}

\* C15: the last report of a ReportWithDelta qualifies as the old report and
\* no qualifying report is newer; a scouting report shown with deltas has no
\* last report only when no stored report qualifies.
C15_LatestQualifying ==
    shown.report_api_key # NoToken =>
        LET new == ReportOf(shown.report_api_key)
        IN  /\ shown.last_report # NoToken =>
                  /\ Qualifies(ReportOf(shown.last_report), new)
                  /\ \A j \in 1..Len(reports) :
                        Qualifies(reports[j], new) =>
                            reports[j].created_at
                                <= ReportOf(shown.last_report).created_at
            /\ (/\ shown.last_report = NoToken
                /\ shown.compute_delta
                /\ new.source = "Ogame")
               => \A j \in 1..Len(reports) : ~Qualifies(reports[j], new)

C15_Witness ==
    /\ shown.last_report # NoToken
    /\ LET new == ReportOf(shown.report_api_key)
           old == ReportOf(shown.last_report)
       IN  \E j \in 1..Len(reports) :
               /\ ~Qualifies(reports[j], new)
               /\ reports[j].report_api_key # new.report_api_key
               /\ reports[j].source = "Ogame"
               /\ reports[j].ogame_id = new.ogame_id
               /\ reports[j].created_at > old.created_at

\* C16: a ReportWithDelta of a battle simulator report has empty deltas and
\* no last report, no last report is a battle simulator report, and a
\* scouting report shown with deltas gets a last report when one qualifies.
C16_BattleSimNeverCompared ==
    shown.report_api_key # NoToken =>
        LET new == ReportOf(shown.report_api_key)
        IN  /\ new.source = "BattleSim" => NothingShown
            /\ shown.last_report # NoToken =>
                  ReportOf(shown.last_report).source = "Ogame"
            /\ (/\ new.source = "Ogame"
                /\ shown.compute_delta
                /\ \E j \in 1..Len(reports) : Qualifies(reports[j], new))
               => shown.last_report # NoToken

C16_Witness ==
    /\ shown.report_api_key # NoToken
    /\ shown.compute_delta
    /\ ReportOf(shown.report_api_key).source = "BattleSim"
    /\ \E j \in 1..Len(reports) :
          /\ reports[j].source = "Ogame"
          /\ reports[j].ogame_id = ReportOf(shown.report_api_key).ogame_id
          /\ reports[j].coords = ReportOf(shown.report_api_key).coords
          /\ reports[j].from_moon = ReportOf(shown.report_api_key).from_moon
          /\ reports[j].created_at < ReportOf(shown.report_api_key).created_at
    /\ NothingShown

====
